---- MODULE Spec2Model ----
(***************************************************************************)
(* Model of the hire-ai-backend services: the PII extractor and its text   *)
(* sanitizer, the resume formatting orchestrator, the relational candidate *)
(* store and the match scorer.  Texts are sequences of one-character       *)
(* strings; an optional value (Python None or a value) is a sequence of    *)
(* length 0 or 1.                                                          *)
(***************************************************************************)
EXTENDS Integers, Sequences, FiniteSets, TLC

\* ------------------------------------------------------------------------
\* Characters and character classes (Python str / re semantics, ASCII part)
\* ------------------------------------------------------------------------
NL == "\n"
UpperSeq == <<"A","B","C","D","E","F","G","H","I","J","K","L","M",
              "N","O","P","Q","R","S","T","U","V","W","X","Y","Z">>
LowerSeq == <<"a","b","c","d","e","f","g","h","i","j","k","l","m",
              "n","o","p","q","r","s","t","u","v","w","x","y","z">>
Upper == {UpperSeq[i] : i \in 1..Len(UpperSeq)}
Lower == {LowerSeq[i] : i \in 1..Len(LowerSeq)}
Digit == {"0","1","2","3","4","5","6","7","8","9"}
Letter == Upper \cup Lower
WordCh == Letter \cup Digit \cup {"_"}
Space == {" ", NL}
Punct == {"@", ".", "-", "+", ":", ",", "(", ")", "[", "]", "_", "|", "%"}
AnyCh == Letter \cup Digit \cup Space \cup Punct

LowerOf == [c \in Upper |-> LowerSeq[CHOOSE i \in 1..Len(UpperSeq) : UpperSeq[i] = c]]
UpperOf == [c \in Lower |-> UpperSeq[CHOOSE i \in 1..Len(LowerSeq) : LowerSeq[i] = c]]
ToLowerCh(c) == IF c \in Upper THEN LowerOf[c] ELSE c
\* both cases of a letter (re.IGNORECASE on a literal character)
CI(c) == IF c \in Upper THEN {c, LowerOf[c]} ELSE IF c \in Lower THEN {c, UpperOf[c]} ELSE {c}

\* optional values
None == <<>>
Some(v) == <<v>>
IsSome(o) == Len(o) = 1
Val(o) == o[1]

\* ------------------------------------------------------------------------
\* String helpers
\* ------------------------------------------------------------------------
Sub(t, a, b) == IF a > b THEN <<>> ELSE SubSeq(t, a, b)

\* the least element of a non-empty set of integers
Least(S) == CHOOSE x \in S : \A y \in S : x <= y

\* str.lower()
LowerStr(t) == [i \in 1..Len(t) |-> ToLowerCh(t[i])]

\* t[pos+1 ..] starts with s
StartsAt(t, s, pos) ==
    /\ pos + Len(s) <= Len(t)
    /\ \A i \in 1..Len(s) : t[pos + i] = s[i]

\* s in t
Contains(t, s) == \E pos \in 0..(Len(t) - Len(s)) : StartsAt(t, s, pos)

\* s.lower() in t.lower()
ContainsCI(t, s) == Contains(LowerStr(t), LowerStr(s))

\* t.find(s, from): the first position >= from where s occurs, -1 if none
Find(t, s, from) ==
    LET occ == {p \in from..(Len(t) - Len(s)) : StartsAt(t, s, p)}
    IN IF occ = {} THEN -1 ELSE Least(occ)

\* str.replace(old, new) / re.sub(re.escape(old), new, t): every
\* non-overlapping occurrence, scanning left to right. old is non-empty.
RECURSIVE ReplaceFrom(_, _, _, _)
ReplaceFrom(t, old, new, pos) ==
    LET o == Find(t, old, pos)
    IN IF o = -1 THEN Sub(t, pos + 1, Len(t))
       ELSE Sub(t, pos + 1, o) \o new \o ReplaceFrom(t, old, new, o + Len(old))
ReplaceAll(t, old, new) == ReplaceFrom(t, old, new, 0)

\* re.sub(re.escape(old), new, t, flags=re.IGNORECASE): occurrences are
\* found in the lower-cased text tl, the kept pieces come from t
RECURSIVE ReplaceCIFrom(_, _, _, _, _)
ReplaceCIFrom(t, tl, oldl, new, pos) ==
    LET o == Find(tl, oldl, pos)
    IN IF o = -1 THEN Sub(t, pos + 1, Len(t))
       ELSE Sub(t, pos + 1, o) \o new \o ReplaceCIFrom(t, tl, oldl, new, o + Len(oldl))
ReplaceAllCI(t, old, new) == ReplaceCIFrom(t, LowerStr(t), LowerStr(old), new, 0)

\* keep only the characters of a class: re.sub(r'[^...]', '', t)
Keep(t, cls) == SelectSeq(t, LAMBDA c : c \in cls)

\* str.strip()
Strip(t) ==
    LET ink == {i \in 1..Len(t) : t[i] \notin Space}
    IN IF ink = {} THEN <<>>
       ELSE Sub(t, Least(ink), CHOOSE i \in ink : \A j \in ink : j <= i)

\* str.split(sep) for a one-character separator: always at least one piece
RECURSIVE SplitOn(_, _)
SplitOn(t, sep) ==
    LET o == Find(t, <<sep>>, 0)
    IN IF o = -1 THEN <<t>>
       ELSE <<Sub(t, 1, o)>> \o SplitOn(Sub(t, o + 2, Len(t)), sep)
SplitLines(t) == SplitOn(t, NL)

\* str.split(): split on runs of whitespace, no empty pieces
RECURSIVE SplitWs(_)
SplitWs(t) ==
    LET ink == {i \in 1..Len(t) : t[i] \notin Space}
        first == Least(ink)
        gaps == {i \in first..Len(t) : t[i] \in Space}
    IN IF ink = {} THEN <<>>
       ELSE IF gaps = {} THEN <<Sub(t, first, Len(t))>>
       ELSE <<Sub(t, first, Least(gaps) - 1)>> \o SplitWs(Sub(t, Least(gaps) + 1, Len(t)))

\* sep.join(parts)
RECURSIVE Join(_, _)
Join(parts, sep) ==
    IF parts = <<>> THEN <<>>
    ELSE IF Len(parts) = 1 THEN parts[1]
    ELSE parts[1] \o sep \o Join(Tail(parts), sep)

\* seq[:n]
Prefix(s, n) == Sub(s, 1, IF Len(s) < n THEN Len(s) ELSE n)

\* ------------------------------------------------------------------------
\* Regular expressions.  A pattern is a sequence of items.  An item is a
\* character class with a repetition range (hi = -1: unbounded), greedy or
\* lazy; or a literal string (lit), case-insensitive when ci; or the
\* zero-width \b (wb).  grp is the capture group the item lies in, 0 for
\* none.  Matching is Python's backtracking search: leftmost start, and
\* for each item the largest (lazy: smallest) count for which the rest of
\* the pattern matches.  A position is the number of characters before it.
\* ------------------------------------------------------------------------
Rep(cls, lo, hi) ==
    [cls |-> cls, lo |-> lo, hi |-> hi, lazy |-> FALSE, grp |-> 0, wb |-> FALSE,
     lit |-> <<>>, ci |-> FALSE]
One(cls) == Rep(cls, 1, 1)
Opt(cls) == Rep(cls, 0, 1)
Plus(cls) == Rep(cls, 1, -1)
Star(cls) == Rep(cls, 0, -1)
LazyStar(cls) == [Rep(cls, 0, -1) EXCEPT !.lazy = TRUE]
WB == [Rep({}, 0, 0) EXCEPT !.wb = TRUE]
Lit(s) == [Rep({}, 0, 0) EXCEPT !.lit = s]
LitCI(s) == [Rep({}, 0, 0) EXCEPT !.lit = s, !.ci = TRUE]
InGroup(items, g) == [k \in 1..Len(items) |-> [items[k] EXCEPT !.grp = g]]

IsWordBoundary(t, pos) ==
    LET before == pos > 0 /\ t[pos] \in WordCh
        after == pos < Len(t) /\ t[pos + 1] \in WordCh
    IN before # after

\* the literal of an item occurs at pos
LitAt(t, it, pos) ==
    /\ pos + Len(it.lit) <= Len(t)
    /\ \A i \in 1..Len(it.lit) :
          IF it.ci THEN ToLowerCh(t[pos + i]) = ToLowerCh(it.lit[i])
          ELSE t[pos + i] = it.lit[i]

\* number of consecutive characters of cls from pos on, at most hi
RunLen(t, cls, pos, hi) ==
    LET last == IF hi # -1 /\ pos + hi < Len(t) THEN pos + hi ELSE Len(t)
        stop == {i \in (pos + 1)..last : t[i] \notin cls}
    IN IF stop = {} THEN last - pos ELSE Least(stop) - pos - 1

\* MatchItems: <<>> when items k.. do not match at pos, otherwise the
\* positions before each of the items k.. followed by the end position.
RECURSIVE MatchItems(_, _, _, _)
RECURSIVE TryCount(_, _, _, _, _, _)
\* greedy: counts n, n-1, .. last, the first for which the rest matches
TryCount(t, items, k, pos, n, last) ==
    LET r == MatchItems(t, items, k + 1, pos + n)
    IN IF r # <<>> THEN <<pos>> \o r
       ELSE IF n = last THEN <<>>
       ELSE TryCount(t, items, k, pos, n - 1, last)
MatchItems(t, items, k, pos) ==
    IF k > Len(items) THEN <<pos>>
    ELSE LET it == items[k] IN
         IF it.wb \/ it.lit # <<>>
         THEN IF (it.wb /\ IsWordBoundary(t, pos)) \/ (~it.wb /\ LitAt(t, it, pos))
              THEN LET r == MatchItems(t, items, k + 1, pos + Len(it.lit))
                   IN IF r = <<>> THEN <<>> ELSE <<pos>> \o r
              ELSE <<>>
         ELSE LET run == RunLen(t, it.cls, pos, it.hi) IN
              IF run < it.lo THEN <<>>
              ELSE IF it.lazy
              THEN LET ok == {n \in it.lo..run : MatchItems(t, items, k + 1, pos + n) # <<>>}
                   IN IF ok = {} THEN <<>>
                      ELSE <<pos>> \o MatchItems(t, items, k + 1, pos + Least(ok))
              ELSE TryCount(t, items, k, pos, run, it.lo)

\* pattern.search(t): the match at the leftmost position, <<>> if none
Search(t, items) ==
    LET starts == {p \in 0..Len(t) : MatchItems(t, items, 1, p) # <<>>}
    IN IF starts = {} THEN <<>> ELSE MatchItems(t, items, 1, Least(starts))

HasGroups(items) == \E k \in 1..Len(items) : items[k].grp > 0
NumGroups(items) == Cardinality({items[k].grp : k \in 1..Len(items)} \ {0})
\* match.group(0)
Group0(t, m) == Sub(t, m[1] + 1, m[Len(m)])
\* match.group(g), g >= 1
GroupN(t, items, m, g) ==
    LET ks == {k \in 1..Len(items) : items[k].grp = g}
        last == CHOOSE k \in ks : \A j \in ks : k >= j
    IN Sub(t, m[Least(ks)] + 1, m[last + 1])
\* ''.join(groups) of the match
RECURSIVE JoinGroups(_, _, _, _)
JoinGroups(t, items, m, g) ==
    IF g > NumGroups(items) THEN <<>>
    ELSE GroupN(t, items, m, g) \o JoinGroups(t, items, m, g + 1)

\* match.group(1) if match.groups() else match.group(0)
Group1Or0(t, items, m) ==
    IF HasGroups(items) THEN GroupN(t, items, m, 1) ELSE Group0(t, m)

\* pattern.findall(t)[0] as the phone code reads it: the whole match when
\* the pattern has no group, otherwise the groups joined
FindallFirstJoined(t, items, m) ==
    IF ~HasGroups(items) THEN Group0(t, m) ELSE JoinGroups(t, items, m, 1)

\* ------------------------------------------------------------------------
\* EnhancedPIIExtractorService: patterns
\* ------------------------------------------------------------------------
EmailLocal == Letter \cup Digit \cup {".", "_", "%", "+", "-"}
EmailDom == Letter \cup Digit \cup {".", "-"}
EmailTld == Letter \cup {"|"}
LabelSep == {":"} \cup Space
PhoneSep == {"-", "."} \cup Space
PhoneBody == Digit \cup Space \cup {"-", "(", ")", "."}

EmailCore == <<Plus(EmailLocal), One({"@"}), Plus(EmailDom), One({"."}), Rep(EmailTld, 2, -1)>>
email_patterns == <<
    <<WB>> \o EmailCore \o <<WB>>,
    <<LitCI(<<"e","m","a","i","l">>), Star(LabelSep)>> \o InGroup(EmailCore, 1),
    <<LitCI(<<"e","-","m","a","i","l">>), Star(LabelSep)>> \o InGroup(EmailCore, 1),
    <<LitCI(<<"m","a","i","l">>), Star(LabelSep)>> \o InGroup(EmailCore, 1) >>

LabelledPhone == InGroup(<<Opt({"+"}), Rep(PhoneBody, 10, -1)>>, 1)
phone_patterns == <<
    <<Opt({"+"}), Opt({"1"}), Opt(PhoneSep), Opt({"("})>>
        \o InGroup(<<Rep(Digit, 3, 3)>>, 1) \o <<Opt({")"}), Opt(PhoneSep)>>
        \o InGroup(<<Rep(Digit, 3, 3)>>, 2) \o <<Opt(PhoneSep)>>
        \o InGroup(<<Rep(Digit, 4, 4)>>, 3),
    <<WB, Rep(Digit, 3, 3), Opt({"-", "."}), Rep(Digit, 3, 3), Opt({"-", "."}),
      Rep(Digit, 4, 4), WB>>,
    <<One({"("}), Rep(Digit, 3, 3), One({")"}), Star(Space), Rep(Digit, 3, 3),
      Opt({"-", "."}), Rep(Digit, 4, 4)>>,
    <<One({"+"}), Rep(Digit, 1, 3), Opt(PhoneSep), Rep(Digit, 3, 4), Opt(PhoneSep),
      Rep(Digit, 3, 4), Opt(PhoneSep), Rep(Digit, 3, 4)>>,
    <<LitCI(<<"p","h","o","n","e">>), Star(LabelSep)>> \o LabelledPhone,
    <<LitCI(<<"m","o","b","i","l","e">>), Star(LabelSep)>> \o LabelledPhone >>

\* [A-Z][a-z]+ at pos: the end position, or -1
CapWordEnd(t, pos) ==
    IF pos < Len(t) /\ t[pos + 1] \in Upper /\ RunLen(t, Lower, pos + 1, -1) >= 1
    THEN pos + 1 + RunLen(t, Lower, pos + 1, -1)
    ELSE -1
\* (?:\s+[A-Z][a-z]+)* at pos, greedy: the end position.  No shorter choice
\* of a sub-run can make a later piece match, so the greedy scan is the
\* regex's match.
RECURSIVE CapSeqMore(_, _)
CapSeqMore(t, pos) ==
    LET ws == RunLen(t, Space, pos, -1)
        e == CapWordEnd(t, pos + ws)
    IN IF ws >= 1 /\ e # -1 THEN CapSeqMore(t, e) ELSE pos
\* [A-Z][a-z]+(?:\s+[A-Z][a-z]+)+ at pos: the end position, or -1
CapSeqEnd(t, pos) ==
    LET e == CapWordEnd(t, pos)
    IN IF e = -1 THEN -1
       ELSE IF CapSeqMore(t, e) = e THEN -1 ELSE CapSeqMore(t, e)

\* prefix alternatives followed by a separator run and the captured name:
\* the captured group at the leftmost match, None if none
NameAt(t, alts, seps, p, a) ==
    LET e == p + Len(alts[a]) + RunLen(t, seps, p + Len(alts[a]), -1)
    IN IF StartsAt(t, alts[a], p) /\ e > p + Len(alts[a]) /\ CapSeqEnd(t, e) # -1
       THEN Some(Sub(t, e + 1, CapSeqEnd(t, e)))
       ELSE None
\* leftmost position, then first alternative in order
NameSearch(t, alts, seps) ==
    LET hits == {p \in 0..Len(t) : \E a \in 1..Len(alts) : IsSome(NameAt(t, alts, seps, p, a))}
        p0 == Least(hits)
        a0 == Least({a \in 1..Len(alts) : IsSome(NameAt(t, alts, seps, p0, a))})
    IN IF hits = {} THEN None ELSE NameAt(t, alts, seps, p0, a0)

NameLabels == << <<"N","a","m","e">>, <<"F","u","l","l"," ","N","a","m","e">>,
                 <<"C","a","n","d","i","d","a","t","e">> >>
Titles == << <<"M","r",".">>, <<"M","s",".">>, <<"D","r",".">> >>
\* the three name patterns: a labelled name, a name at the very start of
\* the text (^ without re.MULTILINE), a name after a title
name_patterns == <<
    [anchored |-> FALSE, alts |-> NameLabels, seps |-> LabelSep],
    [anchored |-> TRUE, alts |-> <<>>, seps |-> {}],
    [anchored |-> FALSE, alts |-> Titles, seps |-> Space] >>
\* pattern.findall(t)[0] (the captured name), None when there is no match
NamePatternFirst(t, pat) ==
    IF pat.anchored
    THEN (IF CapSeqEnd(t, 0) # -1 THEN Some(Sub(t, 1, CapSeqEnd(t, 0))) ELSE None)
    ELSE NameSearch(t, pat.alts, pat.seps)

\* ------------------------------------------------------------------------
\* EnhancedPIIExtractorService: validation
\* ------------------------------------------------------------------------
Count(t, c) == Cardinality({i \in 1..Len(t) : t[i] = c})
IndexOfCh(t, c) == CHOOSE i \in 1..Len(t) : t[i] = c /\ \A j \in 1..(i - 1) : t[j] # c

_validate_email(email) ==
    /\ email # <<>>
    /\ Count(email, "@") = 1
    /\ Count(email, ".") >= 1
    /\ LET at == IndexOfCh(email, "@")
           local == Sub(email, 1, at - 1)
           domain == Sub(email, at + 1, Len(email))
       IN local # <<>> /\ domain # <<>> /\ Count(domain, ".") >= 1 /\ Len(domain) > 3

MinPhoneDigits == 10
MaxPhoneDigits == 15
_validate_phone(phone) ==
    /\ phone # <<>>
    /\ Len(Keep(phone, Digit)) >= MinPhoneDigits
    /\ Len(Keep(phone, Digit)) <= MaxPhoneDigits

\* word[0].isupper() and word.isalpha()
IsCapAlpha(word) == word[1] \in Upper /\ \A i \in 1..Len(word) : word[i] \in Letter

false_positives == {
    <<"D","e","a","r"," ","S","i","r">>,
    <<"D","e","a","r"," ","M","a","d","a","m">>,
    <<"T","o"," ","W","h","o","m">>,
    <<"C","o","v","e","r"," ","L","e","t","t","e","r">>,
    <<"R","e","s","u","m","e"," ","O","f">>,
    <<"C","u","r","r","i","c","u","l","u","m"," ","V","i","t","a","e">> }

_is_likely_full_name(text) ==
    /\ Len(text) >= 3
    /\ Len(SplitWs(text)) >= 2
    /\ \A i \in 1..Len(SplitWs(text)) : IsCapAlpha(SplitWs(text)[i])
    /\ text \notin false_positives

skip_patterns == {
    <<"r","e","s","u","m","e">>, <<"c","v">>, <<"c","u","r","r","i","c","u","l","u","m">>,
    <<"@">>, <<"p","h","o","n","e">>, <<"e","m","a","i","l">>,
    <<"a","d","d","r","e","s","s">>, <<"w","w","w">>, <<"h","t","t","p">>,
    <<"c","o","u","r","s","e","w","o","r","k">>, <<"r","e","l","e","v","a","n","t">>,
    <<"e","d","u","c","a","t","i","o","n">>, <<"p","r","o","f","i","l","e">> }

_is_likely_name_line(line) ==
    /\ \A sp \in skip_patterns : ~Contains(LowerStr(line), sp)
    /\ Len(SplitWs(line)) >= 2
    /\ Len(SplitWs(line)) <= 4
    /\ \A i \in 1..Len(line) : line[i] \notin Digit \cup {"@", "+", "|", "-"}
    /\ \A i \in 1..Len(SplitWs(line)) : IsCapAlpha(SplitWs(line)[i])

\* ------------------------------------------------------------------------
\* EnhancedPIIExtractorService: the four extraction methods.  A result maps
\* each field to None (the key is absent) or Some(value).
\* ------------------------------------------------------------------------
NoPII == [name |-> None, email |-> None, phone |-> None]

\* first pattern, in list order, whose first match validates
RECURSIVE EmailFrom(_, _)
EmailFrom(t, i) ==
    IF i > Len(email_patterns) THEN None
    ELSE LET m == Search(t, email_patterns[i])
             email == Group1Or0(t, email_patterns[i], m)
         IN IF m # <<>> /\ _validate_email(email)
            THEN Some(Strip(LowerStr(email)))
            ELSE EmailFrom(t, i + 1)

\* joined: the findall reading (groups joined); otherwise the search
\* reading (group 1 if the pattern has groups, else the whole match)
RECURSIVE PhoneFrom(_, _, _)
PhoneFrom(t, i, joined) ==
    IF i > Len(phone_patterns) THEN None
    ELSE LET m == Search(t, phone_patterns[i])
             phone == IF joined THEN FindallFirstJoined(t, phone_patterns[i], m)
                      ELSE Group1Or0(t, phone_patterns[i], m)
         IN IF m # <<>> /\ _validate_phone(phone)
            THEN Some(Strip(phone))
            ELSE PhoneFrom(t, i + 1, joined)

RECURSIVE NameFrom(_, _)
NameFrom(t, i) ==
    IF i > Len(name_patterns) THEN None
    ELSE LET f == NamePatternFirst(t, name_patterns[i])
         IN IF IsSome(f) /\ _is_likely_full_name(Strip(Val(f)))
            THEN Some(Strip(Val(f)))
            ELSE NameFrom(t, i + 1)

_extract_with_enhanced_regex(t) ==
    [name |-> NameFrom(t, 1), email |-> EmailFrom(t, 1), phone |-> PhoneFrom(t, 1, TRUE)]

\* the entity tagger is external: ner is the first PERSON entity it
\* reports that passes the full-name check, None when there is none
NerPrefixLen == 1000
_extract_with_spacy(t, ner) ==
    [name |-> IF IsSome(ner) THEN Some(Strip(Val(ner))) ELSE None,
     email |-> None, phone |-> None]

HeaderLines == 5
NameLines == 3
RECURSIVE FirstNameLine(_)
FirstNameLine(lines) ==
    IF lines = <<>> THEN None
    ELSE IF Strip(Head(lines)) # <<>> /\ _is_likely_name_line(Strip(Head(lines)))
         THEN Some(Strip(Head(lines)))
         ELSE FirstNameLine(Tail(lines))

_extract_from_structure(t) ==
    LET lines == SplitLines(t)
        header_text == Join(Prefix(lines, HeaderLines), <<NL>>)
    IN [name |-> FirstNameLine(Prefix(lines, NameLines)),
        email |-> EmailFrom(header_text, 1),
        phone |-> PhoneFrom(header_text, 1, FALSE)]

SectionEnd == <<One({NL}), One({NL} \cup Letter)>>
contact_section_patterns == <<
    <<LitCI(<<"c","o","n","t","a","c","t">>), Star(Space),
      LitCI(<<"i","n","f","o","r","m","a","t","i","o","n">>), Star(LabelSep)>>
        \o InGroup(<<LazyStar(AnyCh)>>, 1) \o SectionEnd,
    <<LitCI(<<"c","o","n","t","a","c","t">>), Star(LabelSep)>>
        \o InGroup(<<LazyStar(AnyCh)>>, 1) \o SectionEnd,
    <<LitCI(<<"p","e","r","s","o","n","a","l">>), Star(Space),
      LitCI(<<"d","e","t","a","i","l","s">>), Star(LabelSep)>>
        \o InGroup(<<LazyStar(AnyCh)>>, 1) \o SectionEnd >>

RECURSIVE ContextFrom(_, _)
ContextFrom(t, i) ==
    IF i > Len(contact_section_patterns) THEN NoPII
    ELSE LET m == Search(t, contact_section_patterns[i])
             contact_text == GroupN(t, contact_section_patterns[i], m, 1)
         IN IF m # <<>>
            THEN [name |-> None,
                  email |-> EmailFrom(contact_text, 1),
                  phone |-> PhoneFrom(contact_text, 1, FALSE)]
            ELSE ContextFrom(t, i + 1)
_extract_with_context(t) == ContextFrom(t, 1)

\* ------------------------------------------------------------------------
\* EnhancedPIIExtractorService.extract_with_voting
\* ------------------------------------------------------------------------
\* confidences in hundredths
ConfRegex(field) == IF field \in {"email", "phone"} THEN 95 ELSE 80
ConfSpacy == 85
ConfStructural == 90
ConfContext == 88

Hit(o, conf) == IF IsSome(o) /\ Val(o) # <<>> THEN << <<Val(o), conf>> >> ELSE <<>>

BestCandidate_First(cands) == cands[1]

\* max(candidates, key=confidence): the first candidate of highest confidence
BestCandidate(cands) ==
    cands[CHOOSE i \in 1..Len(cands) :
            /\ \A j \in 1..Len(cands) : cands[j][2] <= cands[i][2]
            /\ \A j \in 1..(i - 1) : cands[j][2] < cands[i][2]]

\* a vote that defaults a field without hits to the empty string
VoteField_EmptyDefault(cands) ==
    IF cands # <<>> THEN Some(BestCandidate(cands)[1]) ELSE Some(<<>>)
VoteField(cands) == IF cands # <<>> THEN Some(BestCandidate(cands)[1]) ELSE None

\* nlp: whether the entity model was loaded at construction
NoFound == [regex |-> NoPII, spacy |-> NoPII, structural |-> NoPII, context |-> NoPII]
MethodResults(t, nlp, ner) ==
    [regex |-> _extract_with_enhanced_regex(t),
     spacy |-> IF nlp THEN _extract_with_spacy(t, ner) ELSE NoPII,
     structural |-> _extract_from_structure(t),
     context |-> _extract_with_context(t)]
\* the candidates of a field in the order they are collected, and the vote
Vote(res) ==
    LET cands(f) == Hit(res.regex[f], ConfRegex(f)) \o Hit(res.spacy[f], ConfSpacy)
                    \o Hit(res.structural[f], ConfStructural)
                    \o Hit(res.context[f], ConfContext)
    IN [f \in {"name", "email", "phone"} |-> VoteField(cands(f))]
extract_with_voting(t, nlp, ner) == Vote(MethodResults(t, nlp, ner))

\* ------------------------------------------------------------------------
\* EnhancedPIIExtractorService.sanitize_text_for_llm
\* ------------------------------------------------------------------------
EMAIL_REMOVED == <<"[","E","M","A","I","L","_","R","E","M","O","V","E","D","]">>
PHONE_REMOVED == <<"[","P","H","O","N","E","_","R","E","M","O","V","E","D","]">>
NAME_REMOVED == <<"[","N","A","M","E","_","R","E","M","O","V","E","D","]">>

\* pii_data.get(f) is truthy
Truthy(o) == IsSome(o) /\ Val(o) # <<>>

SanitizeEmail(t, pii) ==
    IF Truthy(pii.email) THEN ReplaceAllCI(t, Val(pii.email), EMAIL_REMOVED) ELSE t

SanitizePhone(t, pii) ==
    IF Truthy(pii.phone)
    THEN LET phone == Val(pii.phone)
             phone_digits == Keep(phone, Digit \cup {"+"})
             exact == ReplaceAll(t, phone, PHONE_REMOVED)
         IN IF phone_digits # phone /\ Contains(exact, phone_digits)
            THEN ReplaceAll(exact, phone_digits, PHONE_REMOVED)
            ELSE exact
    ELSE t

MinNamePartLen == 2
RECURSIVE SanitizeNameParts(_, _)
SanitizeNameParts(t, parts) ==
    IF parts = <<>> THEN t
    ELSE IF Len(Head(parts)) > MinNamePartLen
         THEN SanitizeNameParts(ReplaceAllCI(t, Head(parts), NAME_REMOVED), Tail(parts))
         ELSE SanitizeNameParts(t, Tail(parts))
SanitizeName(t, pii) ==
    IF Truthy(pii.name) THEN SanitizeNameParts(t, SplitWs(Val(pii.name))) ELSE t

sanitize_text_for_llm(t, pii) ==
    IF t = <<>> THEN t
    ELSE SanitizeName(SanitizePhone(SanitizeEmail(t, pii), pii), pii)

\* ------------------------------------------------------------------------
\* Input texts: up to MaxLines lines of a fixed menu joined by newlines,
\* and the four-line resume of the end-to-end scenario.
\* ------------------------------------------------------------------------
MaxLines == 2

NameLine == <<"J","a","n","e"," ","D","o","e">>
ShortNameLine == <<"L","i"," ","W","u">>
EmailLine == <<"J","a","n","e",".","D","o","e","@","E","x",".","i","o">>
DashedPhoneLine == <<"4","1","5","-","5","5","5","-","0","1","0","0">>
PlainPhoneLine == <<"4","1","5","5","5","5","0","1","0","0">>
IntlPhoneLine == <<"+","4","4"," ","7","9","1","1"," ","1","2","3","4","5","6">>
SkillsLine == <<"S","k","i","l","l","s",":"," ","A","W","S">>
ShortNumberLine == <<"5","5","5","-","0","1","0","0">>
ContactLine == <<"C","o","n","t","a","c","t",":"," ","4","1","5","5","5","5","0","1","0","0">>

EmailLines == {EmailLine}
PhoneLines == {DashedPhoneLine, PlainPhoneLine, IntlPhoneLine}
PlainLines == {SkillsLine, ShortNumberLine}
LineMenu == {NameLine, ShortNameLine, ContactLine} \cup EmailLines \cup PhoneLines \cup PlainLines

JaneEmail == <<"j","a","n","e",".","d","o","e","@","e","x","a","m","p","l","e",".","c","o","m">>
JanePhone == <<"+","1"," ","4","1","5","-","5","5","5","-","0","1","0","0">>
JaneSkills == <<"S","k","i","l","l","s",":"," ","P","y","t","h","o","n",","," ","A","W","S">>
JaneDoeResume == Join(<<NameLine, JaneEmail, JanePhone, JaneSkills>>, <<NL>>)

LineSeqs == UNION {[1..n -> LineMenu] : n \in 0..MaxLines}
Texts == {Join(ls, <<NL>>) : ls \in LineSeqs} \cup {JaneDoeResume}

\* the spans the entity tagger can report as a PERSON entity that passes
\* the full-name check: whole words of the analysed prefix of the text
NerOutcomes(t) ==
    LET doc == Prefix(t, NerPrefixLen)
        starts == {a \in 1..Len(doc) : doc[a] \notin Space /\ (a = 1 \/ doc[a - 1] \in Space)}
        ends == {b \in 1..Len(doc) : doc[b] \notin Space /\ (b = Len(doc) \/ doc[b + 1] \in Space)}
    IN {None} \cup {Some(Sub(doc, a, b)) : <<a, b>> \in
                      {ab \in starts \X ends : ab[1] <= ab[2]
                                               /\ _is_likely_full_name(Sub(doc, ab[1], ab[2]))}}

\* ------------------------------------------------------------------------
\* State
\* ------------------------------------------------------------------------
VARIABLES
    text,       \* the text given to the PII extractor
    nlp,        \* whether the entity model was loaded (self.nlp is not None)
    ner,        \* what the entity tagger reports for the text (external)
    pii,        \* the extraction result
    found,      \* what each method found (regex_result, spacy_result, ...)
    sanitized,  \* the result of sanitize_text_for_llm
    ppc,        \* "input", "extracted", "sanitized" ("idle": not in use)
    \* the candidates table and the create_candidate calls of each client
    store,      \* the committed rows of the candidates table
    nextId,     \* the next primary key
    cpc,        \* per client: "idle", "commit", "rollback", "done"
    creq,       \* per client: the candidate_data of the call in progress
    cres,       \* per client: what the call returned (or that it raised)
    ccalls,     \* calls started so far, over all clients
    \* one evaluation of _calculate_match_score
    candidate,  \* the candidate row being scored
    criteria,   \* the search criteria
    match,      \* the outcome: the components and the returned score
    spc,        \* "input", "scored", "matched" ("idle": not in use)
    matching,   \* what _get_matching_skills returned
    \* one call of ResumeFormatterService.format_resume_output; its local PII
    \* extraction uses text, nlp, ner, pii and sanitized above
    raw,        \* raw_resume_data, the argument
    faulty,     \* whether a step may raise for a reason outside the record
    fpc,        \* "start", "calling", "combine", "local", "except",
                \* "minimal", "returned", "raised" ("idle": not in use)
    payload,    \* what was submitted to the external service, if anything
    llm,        \* what _call_groq_api returned
    response,   \* the FrontendResumeResponse returned
    \* one candidate search
    spool,      \* the stored candidates, in the order the store yields them
    scrit,      \* the structured criteria of the search
    smax,       \* max_results
    svia,       \* "router" (POST /search) or "service" (search_candidates)
    sout,       \* what the search returned, or that it raised
    qpc,        \* "start", "done" ("idle": not in use)
    \* the campaigns of one user and one send_campaign_emails call at a time
    camps,      \* the campaign documents, by id
    ouser,      \* whether the user's own document exists
    opc,        \* "idle", "loop", "done"
    ocur,       \* the campaign_id of the call
    oidx,       \* the position of the loop in target_candidate_ids
    osent,      \* emails_sent, the local counter
    ofailed,    \* failed_emails, the local list
    oret,       \* what the call returned
    osends,     \* calls started so far
    \* uploads through POST /candidates/upload-resume, one at a time, into
    \* the candidates table (store, nextId above)
    ufile,      \* file.filename of the upload
    ucontent,   \* what the file holds: the email of a resume, or "unreadable"
    upc,        \* "idle", "parse", "store", "format", "done"
    ures,       \* the response: status code and detail
    ueffects,   \* what the upload has done: "extract", "store", "external"
    uploads,    \* uploads started so far
    \* one call of AIService.process_search_query
    aquery,     \* the query
    aremote,    \* what the completion endpoint answers (external)
    aout,       \* what the call returned, or that it raised
    apc,        \* "start", "done" ("idle": not in use)
    \* AppLogger.get_logger called from several threads
    registry,   \* AppLogger._loggers: the names that have an entry
    pylog,      \* per name: the handlers on logging.getLogger(name)
    lpc,        \* per thread: "idle", "create", "register"
    lname,      \* per thread: the name of the call in progress
    lret,       \* per thread: the logger the last call returned, if any
    lcalls,     \* calls started so far, over all threads
    \* one request to a DELETE route of routers/candidates.py, over the
    \* candidates table
    dreq,       \* the request: the route and its id or email
    dres,       \* its response: status code, detail, the deleted row
    dpc         \* "start", "done" ("idle": not in use)

piiVars == <<text, nlp, ner, pii, found, sanitized, ppc>>
storeVars == <<store, nextId, cpc, creq, cres, ccalls>>
scoreVars == <<candidate, criteria, match, spc, matching>>
fmtVars == <<raw, faulty, fpc, payload, llm, response>>
searchVars == <<spool, scrit, smax, svia, sout, qpc>>
campVars == <<camps, ouser, opc, ocur, oidx, osent, ofailed, oret, osends>>
upVars == <<ufile, ucontent, upc, ures, ueffects, uploads>>
aiVars == <<aquery, aremote, aout, apc>>
logVars == <<registry, pylog, lpc, lname, lret, lcalls>>
delVars == <<dreq, dres, dpc>>
opsVars == <<searchVars, campVars, upVars, aiVars, logVars, delVars>>
vars == <<piiVars, storeVars, scoreVars, fmtVars, opsVars>>

\* ------------------------------------------------------------------------
\* CandidateService.create_candidate over the candidates table, whose
\* email column is unique.  A commit is atomic in the database; the steps
\* of concurrent calls interleave between commit and the lookup that
\* follows a failed commit.
\* ------------------------------------------------------------------------
NumClients == 2
MaxCalls == 3
Clients == 1..NumClients
StoreEmails == {"a@x.io", "b@x.io"}
StoreNames == {"Ann", "Bob"}
NoRow == [id |-> 0, email |-> "", name |-> ""]
NoReq == [email |-> "", name |-> "", fresh |-> FALSE]
NoRes == [action |-> "none", candidate |-> NoRow]

IdleStore ==
    /\ store = {}
    /\ nextId = 1
    /\ cpc = [c \in Clients |-> "idle"]
    /\ creq = [c \in Clients |-> NoReq]
    /\ cres = [c \in Clients |-> NoRes]
    /\ ccalls = 0

NoMatch == [raised |-> FALSE, skills |-> <<0, 1>>, experience |-> 0,
            location |-> 0, keywords |-> <<0, 1>>, score |-> <<0, 1>>]
IdleScore ==
    /\ candidate = <<>>
    /\ criteria = <<>>
    /\ match = NoMatch
    /\ spc = "idle"
    /\ matching = <<>>

NoRaw == [envelope |-> "ok", status |-> "", is_new |-> TRUE, note |-> None, filename |-> <<>>,
          cand |-> "absent", text_kind |-> "absent", name |-> None, email |-> None,
          phone |-> None, skills |-> <<>>, experience_years |-> None, location |-> None]
NoLlm == [ok |-> FALSE, why |-> "", empty |-> TRUE, skills_kind |-> "absent", skills |-> <<>>,
          experience_years |-> None, location |-> None]
NoResponse == [status |-> "", name |-> None, email |-> None, phone |-> None, location |-> None,
               experience_years |-> None, skills |-> <<>>, filename |-> <<>>, is_new |-> TRUE,
               note |-> None, tier |-> "none"]
IdleFormat ==
    /\ raw = NoRaw
    /\ faulty = FALSE
    /\ fpc = "idle"
    /\ payload = None
    /\ llm = NoLlm
    /\ response = NoResponse

NoOut == [raised |-> FALSE, results |-> <<>>, total_found |-> 0]
IdleSearch ==
    /\ spool = <<>>
    /\ scrit = <<>>
    /\ smax = 0
    /\ svia = ""
    /\ sout = NoOut
    /\ qpc = "idle"

NoRet == [success |-> FALSE, emails_sent |-> 0, failed_emails |-> <<>>, message |-> ""]
IdleCampaigns ==
    /\ camps = <<>>
    /\ ouser = TRUE
    /\ opc = "idle"
    /\ ocur = 0
    /\ oidx = 0
    /\ osent = 0
    /\ ofailed = <<>>
    /\ oret = NoRet
    /\ osends = 0

NoUploadResponse == [code |-> 0, detail |-> ""]
IdleUpload ==
    /\ ufile = <<>>
    /\ ucontent = ""
    /\ upc = "idle"
    /\ ures = NoUploadResponse
    /\ ueffects = {}
    /\ uploads = 0

NoAnswer == [kind |-> "none", code |-> 0, content |-> <<>>]
NoCriteria == [raised |-> FALSE, value |-> [type |-> "none"]]
IdleAI ==
    /\ aquery = <<>>
    /\ aremote = NoAnswer
    /\ aout = NoCriteria
    /\ apc = "idle"

NoDeleteRequest == [via |-> "none", id |-> 0, email |-> ""]
NoDeleteResponse == [code |-> 0, detail |-> "", deleted |-> NoRow]
IdleDelete ==
    /\ dreq = NoDeleteRequest
    /\ dres = NoDeleteResponse
    /\ dpc = "idle"

NumThreads == 2
MaxLogCalls == 3
Threads == 1..NumThreads
LoggerNames == {"app", "app.services.candidate_service"}
IdleLog ==
    /\ registry = [n \in LoggerNames |-> None]
    /\ pylog = [n \in LoggerNames |-> 0]
    /\ lpc = [t \in Threads |-> "idle"]
    /\ lname = [t \in Threads |-> "app"]
    /\ lret = [t \in Threads |-> None]
    /\ lcalls = 0

IdleOps == IdleSearch /\ IdleCampaigns /\ IdleUpload /\ IdleAI /\ IdleLog /\ IdleDelete

IdlePII ==
    /\ text = <<>>
    /\ nlp = FALSE
    /\ ner = None
    /\ pii = NoPII
    /\ found = NoFound
    /\ sanitized = <<>>
    /\ ppc = "idle"

RowsWithEmail(e) == {r \in store : r.email = e}

\* the caller enters create_candidate: the Candidate object is built and
\* added to the session.  fresh records whether the email was absent from
\* the table at that moment (history for the claims, not program state).
CreateBegin(c) ==
    /\ cpc[c] = "idle"
    /\ ccalls < MaxCalls
    /\ \E e \in StoreEmails, n \in StoreNames :
          creq' = [creq EXCEPT ![c] = [email |-> e, name |-> n,
                                       fresh |-> RowsWithEmail(e) = {}]]
    /\ cpc' = [cpc EXCEPT ![c] = "commit"]
    /\ ccalls' = ccalls + 1
    /\ cres' = [cres EXCEPT ![c] = NoRes]
    /\ UNCHANGED <<store, nextId>>

\* a commit that inserts without the unique constraint on email
CreateCommit_NoUnique(c) ==
    /\ cpc[c] = "commit"
    /\ store' = store \cup {[id |-> nextId, email |-> creq[c].email, name |-> creq[c].name]}
    /\ nextId' = nextId + 1
    /\ cres' = [cres EXCEPT ![c] =
                  [action |-> "created",
                   candidate |-> [id |-> nextId, email |-> creq[c].email, name |-> creq[c].name]]]
    /\ cpc' = [cpc EXCEPT ![c] = "done"]
    /\ UNCHANGED <<creq, ccalls>>
\* db.commit(): inserts the row, or fails with IntegrityError when a row
\* with this email exists; db.refresh and the "created" result follow a
\* successful commit.
CreateCommit(c) ==
    /\ cpc[c] = "commit"
    /\ IF RowsWithEmail(creq[c].email) = {}
       THEN LET row == [id |-> nextId, email |-> creq[c].email, name |-> creq[c].name]
            IN /\ store' = store \cup {row}
               /\ nextId' = nextId + 1
               /\ cres' = [cres EXCEPT ![c] = [action |-> "created", candidate |-> row]]
               /\ cpc' = [cpc EXCEPT ![c] = "done"]
       ELSE /\ cpc' = [cpc EXCEPT ![c] = "rollback"]
            /\ UNCHANGED <<store, nextId, cres>>
    /\ UNCHANGED <<creq, ccalls>>

\* an IntegrityError handler that lets the error reach the caller
CreateLookup_Raises(c) ==
    /\ cpc[c] = "rollback"
    /\ cres' = [cres EXCEPT ![c] = [action |-> "raised", candidate |-> NoRow]]
    /\ cpc' = [cpc EXCEPT ![c] = "done"]
    /\ UNCHANGED <<store, nextId, creq, ccalls>>
\* except IntegrityError: rollback, query the row with this email; return
\* it as "exists", or raise when the query finds none
CreateLookup(c) ==
    /\ cpc[c] = "rollback"
    /\ IF RowsWithEmail(creq[c].email) # {}
       THEN cres' = [cres EXCEPT ![c] =
                [action |-> "exists",
                 candidate |-> CHOOSE r \in RowsWithEmail(creq[c].email) :
                                  \A r2 \in RowsWithEmail(creq[c].email) : r.id <= r2.id]]
       ELSE cres' = [cres EXCEPT ![c] = [action |-> "raised", candidate |-> NoRow]]
    /\ cpc' = [cpc EXCEPT ![c] = "done"]
    /\ UNCHANGED <<store, nextId, creq, ccalls>>

\* the call returns to its caller
CreateReturn(c) ==
    /\ cpc[c] = "done"
    /\ cpc' = [cpc EXCEPT ![c] = "idle"]
    /\ UNCHANGED <<store, nextId, creq, cres, ccalls>>

InitStore == IdleStore /\ IdlePII /\ IdleScore /\ IdleFormat /\ IdleOps
NextStore ==
    \/ \E c \in Clients : CreateBegin(c) /\ UNCHANGED <<piiVars, scoreVars, fmtVars, opsVars>>
    \/ \E c \in Clients : CreateCommit(c) /\ UNCHANGED <<piiVars, scoreVars, fmtVars, opsVars>>
    \/ \E c \in Clients : CreateLookup(c) /\ UNCHANGED <<piiVars, scoreVars, fmtVars, opsVars>>
    \/ \E c \in Clients : CreateReturn(c) /\ UNCHANGED <<piiVars, scoreVars, fmtVars, opsVars>>
SpecStore == InitStore /\ [][NextStore]_vars

\* ------------------------------------------------------------------------
\* The DELETE routes (routers/candidates.py) and
\* CandidateService.delete_candidate: one delete request running beside
\* create_candidate calls.  No create changes or removes a stored row, so the query and the
\* commit of a delete are one step.
\* ------------------------------------------------------------------------
CandidateNotFound == "Candidate not found"
DeletionFailed == "Deletion failed"
Deleted == "success"
RowsWithId(id) == {r \in store : r.id = id}

\* CandidateService.delete_candidate (lines 378-410): the row and whether
\* it was there
delete_candidate(id) ==
    IF RowsWithId(id) = {}
    THEN [success |-> FALSE, candidate |-> NoRow]
    ELSE [success |-> TRUE, candidate |-> CHOOSE r \in RowsWithId(id) : TRUE]

\* DELETE /{candidate_id} (lines 151-179): the HTTPException of the else
\* branch is raised inside the try block, whose except Exception clause
\* catches it and raises the 500 response
DeleteById(id) ==
    /\ dpc = "start"
    /\ dpc' = "done"
    /\ dreq' = [via |-> "id", id |-> id, email |-> ""]
    /\ LET result == delete_candidate(id)
       IN IF result.success
          THEN /\ store' = store \ {result.candidate}
               /\ dres' = [code |-> 200, detail |-> Deleted, deleted |-> result.candidate]
          ELSE /\ store' = store
               /\ dres' = [code |-> 500, detail |-> DeletionFailed, deleted |-> NoRow]
    /\ UNCHANGED <<nextId, cpc, creq, cres, ccalls>>

\* DELETE /by-email/{email} (lines 181-215): the 404 is raised inside the
\* try block and passed on by the except HTTPException clause
DeleteByEmail(e) ==
    /\ dpc = "start"
    /\ dpc' = "done"
    /\ dreq' = [via |-> "email", id |-> 0, email |-> e]
    /\ IF RowsWithEmail(e) = {}
       THEN /\ store' = store
            /\ dres' = [code |-> 404, detail |-> CandidateNotFound, deleted |-> NoRow]
       ELSE LET found_row == CHOOSE r \in RowsWithEmail(e) :
                                \A r2 \in RowsWithEmail(e) : r.id <= r2.id
                result == delete_candidate(found_row.id)
            IN /\ store' = store \ {result.candidate}
               /\ dres' = [code |-> 200, detail |-> Deleted, deleted |-> result.candidate]
    /\ UNCHANGED <<nextId, cpc, creq, cres, ccalls>>

InitDelete ==
    /\ IdleStore
    /\ dreq = NoDeleteRequest
    /\ dres = NoDeleteResponse
    /\ dpc = "start"
    /\ IdlePII
    /\ IdleScore
    /\ IdleFormat
    /\ IdleSearch
    /\ IdleCampaigns
    /\ IdleUpload
    /\ IdleAI
    /\ IdleLog

NextDelete ==
    \/ NextStore
    \/ /\ \E id \in 1..nextId : DeleteById(id)
       /\ UNCHANGED <<piiVars, scoreVars, fmtVars, searchVars, campVars, upVars, aiVars, logVars>>
    \/ /\ \E e \in StoreEmails : DeleteByEmail(e)
       /\ UNCHANGED <<piiVars, scoreVars, fmtVars, searchVars, campVars, upVars, aiVars, logVars>>
SpecDelete == InitDelete /\ [][NextDelete]_vars

\* ------------------------------------------------------------------------
\* CandidateService._calculate_match_score.  The score is a float built
\* from quotients; it is modelled by the exact rational <<numerator,
\* denominator>> with a positive denominator.
\* ------------------------------------------------------------------------
Rat(n, d) == <<n, d>>
RatInt(n) == <<n, 1>>
RatAdd(a, b) == <<a[1] * b[2] + b[1] * a[2], a[2] * b[2]>>
RatLeq(a, b) == a[1] * b[2] <= b[1] * a[2]
RatEq(a, b) == a[1] * b[2] = b[1] * a[2]
RatMin(a, b) == IF RatLeq(a, b) THEN a ELSE b
RatIsInteger(a) == a[1] % a[2] = 0
RatFloor(a) == a[1] \div a[2]

SkillShare == 40
ExperienceShare == 30
LocationShare == 20
KeywordShare == 10
ScoreCap == 100

Range(q) == {q[i] : i \in 1..Len(q)}

\* if criteria.get("skills") and candidate.skills:
\*     len(set(criteria) & set(candidate)) / len(criteria) * 40
SkillScore(cand, crit) ==
    IF crit.skills # <<>> /\ cand.skills # <<>>
    THEN Rat(Cardinality(Range(crit.skills) \cap Range(cand.skills)) * SkillShare,
             Len(crit.skills))
    ELSE RatInt(0)

\* criteria.get("experience_min") is truthy: present and not 0
HasExperienceMin(crit) == IsSome(crit.experience_min) /\ Val(crit.experience_min) # 0
\* candidate.experience_years >= criteria["experience_min"] raises
\* TypeError when experience_years is None
ExperienceRaises(cand, crit) == HasExperienceMin(crit) /\ ~IsSome(cand.experience_years)
ExperienceScore(cand, crit) ==
    IF HasExperienceMin(crit) /\ IsSome(cand.experience_years)
          /\ Val(cand.experience_years) >= Val(crit.experience_min)
    THEN ExperienceShare ELSE 0

\* if criteria.get("location") and candidate.location: lower-cased substring
LocationScore(cand, crit) ==
    IF Truthy(crit.location) /\ Truthy(cand.location)
          /\ ContainsCI(Val(cand.location), Val(crit.location))
    THEN LocationShare ELSE 0

\* if criteria.get("keywords") and candidate.resume_text:
\*     share of the keywords found, lower-cased, in the resume text
KeywordScore(cand, crit) ==
    IF crit.keywords # <<>> /\ Truthy(cand.resume_text)
    THEN Rat(Cardinality({i \in 1..Len(crit.keywords) :
                             ContainsCI(Val(cand.resume_text), crit.keywords[i])}) * KeywordShare,
             Len(crit.keywords))
    ELSE RatInt(0)

_calculate_match_score(cand, crit) ==
    IF ExperienceRaises(cand, crit)
    THEN [NoMatch EXCEPT !.raised = TRUE, !.skills = SkillScore(cand, crit)]
    ELSE LET sum == RatAdd(RatAdd(SkillScore(cand, crit),
                                  RatInt(ExperienceScore(cand, crit) + LocationScore(cand, crit))),
                           KeywordScore(cand, crit))
         IN [raised |-> FALSE,
             skills |-> SkillScore(cand, crit),
             experience |-> ExperienceScore(cand, crit),
             location |-> LocationScore(cand, crit),
             keywords |-> KeywordScore(cand, crit),
             score |-> RatMin(sum, RatInt(ScoreCap))]

\* the candidates and criteria scored
MaxCriteriaSkills == 3
MaxKeywords == 1
MaxYears == 5
SkillMenu == {"Python", "AWS", "Go"}
SkillLists(n) == UNION {[1..k -> SkillMenu] : k \in 0..n}
CandidateSkills == {<<>>, <<"Python">>, <<"python", "AWS">>}
AustinTX == <<"A","u","s","t","i","n",","," ","T","X">>
Austin == <<"a","u","s","t","i","n">>
Boston == <<"B","o","s","t","o","n">>
KeywordMenu == {<<"a","w","s">>}
KeywordLists == UNION {[1..k -> KeywordMenu] : k \in 0..MaxKeywords}
Years == 0..MaxYears
OptYears == {None} \cup {Some(y) : y \in Years}
Candidates ==
    [skills : CandidateSkills,
     experience_years : OptYears,
     location : {None, Some(AustinTX)},
     resume_text : {None, Some(SkillsLine)}]
Criterias ==
    [skills : SkillLists(MaxCriteriaSkills),
     experience_min : {None, Some(0), Some(2), Some(5)},
     experience_max : {None, Some(4)},
     location : {None, Some(Austin), Some(Boston)},
     keywords : KeywordLists]

InitScore ==
    /\ candidate \in Candidates
    /\ criteria \in Criterias
    /\ match = NoMatch
    /\ spc = "input"
    /\ matching = <<>>
    /\ IdlePII
    /\ IdleStore
    /\ IdleFormat
    /\ IdleOps

CalculateMatchScore ==
    /\ spc = "input"
    /\ match' = _calculate_match_score(candidate, criteria)
    /\ spc' = "scored"
    /\ UNCHANGED <<candidate, criteria, matching, piiVars, storeVars, fmtVars, opsVars>>

NextScore == CalculateMatchScore
SpecScore == InitScore /\ [][NextScore]_vars

\* ------------------------------------------------------------------------
\* CandidateService._get_matching_skills: list(set(criteria) & set(candidate)).
\* The order in which a set of strings is iterated depends on the string
\* hashes of the run, so any arrangement of the common skills may be
\* returned.
\* ------------------------------------------------------------------------
Arrangements(S) ==
    {q \in [1..Cardinality(S) -> S] : \A i, j \in 1..Cardinality(S) : q[i] = q[j] => i = j}

_get_matching_skills(cand, crit) ==
    IF crit.skills = <<>> \/ cand.skills = <<>>
    THEN {<<>>}
    ELSE Arrangements(Range(crit.skills) \cap Range(cand.skills))

MatchCandidateSkills == CandidateSkills \cup {<<"Go", "AWS", "Python">>}
MatchCandidates ==
    [skills : MatchCandidateSkills,
     experience_years : {Some(2)},
     location : {None},
     resume_text : {None}]
MatchCriterias ==
    [skills : SkillLists(MaxCriteriaSkills),
     experience_min : {None},
     experience_max : {None},
     location : {None},
     keywords : {<<>>}]

InitMatch ==
    /\ candidate \in MatchCandidates
    /\ criteria \in MatchCriterias
    /\ match = NoMatch
    /\ spc = "input"
    /\ matching = <<>>
    /\ IdlePII
    /\ IdleStore
    /\ IdleFormat
    /\ IdleOps

GetMatchingSkills ==
    /\ spc = "input"
    /\ matching' \in _get_matching_skills(candidate, criteria)
    /\ spc' = "matched"
    /\ UNCHANGED <<candidate, criteria, match, piiVars, storeVars, fmtVars, opsVars>>

NextMatch == GetMatchingSkills
SpecMatch == InitMatch /\ [][NextMatch]_vars

\* ------------------------------------------------------------------------
\* The location component of _calculate_match_score on candidates and
\* criteria whose locations contain one another, share a token, or differ.
\* ------------------------------------------------------------------------
AustinTXUSA == <<"A","u","s","t","i","n",","," ","T","X",","," ","U","S","A">>
AustinTexas == <<"A","u","s","t","i","n"," ","T","e","x","a","s">>
UpperAustin == <<"A","U","S","T","I","N">>
Remote == <<"R","e","m","o","t","e">>
LocationCandidates ==
    [skills : {<<>>, <<"Python">>},
     experience_years : {Some(3)},
     location : {None, Some(<<>>), Some(AustinTX), Some(UpperAustin), Some(Boston)},
     resume_text : {None}]
LocationCriterias ==
    [skills : {<<>>, <<"Python">>},
     experience_min : {None, Some(2)},
     experience_max : {None},
     location : {None, Some(<<>>), Some(Austin), Some(Boston), Some(AustinTXUSA),
                 Some(AustinTexas), Some(Remote)},
     keywords : {<<>>}]

InitLocation ==
    /\ candidate \in LocationCandidates
    /\ criteria \in LocationCriterias
    /\ match = NoMatch
    /\ spc = "input"
    /\ matching = <<>>
    /\ IdlePII
    /\ IdleStore
    /\ IdleFormat
    /\ IdleOps

NextLocation == CalculateMatchScore
SpecLocation == InitLocation /\ [][NextLocation]_vars

\* ------------------------------------------------------------------------
\* A search over the stored candidates: the handler of POST /search
\* (routers/search.py), which scores every stored candidate, and
\* CandidateService.search_candidates, which scores the rows its query
\* selects.  Both call _calculate_match_score and _get_matching_skills.
\* A result carries the position of its candidate in the store (the
\* candidate's identity) and the common skills as a set: the order of the
\* matching-skills list is the subject of GetMatchingSkills above.
\* ------------------------------------------------------------------------
MaxPool == 3

Positions(pool) == [i \in 1..Len(pool) |-> i]
Raises(cand, crit) == _calculate_match_score(cand, crit).raised
MatchingSet(cand, crit) == UNION {Range(q) : q \in _get_matching_skills(cand, crit)}
Entry(pool, crit, i) ==
    [pos |-> i,
     match_score |-> _calculate_match_score(pool[i], crit).score,
     matching_skills |-> MatchingSet(pool[i], crit)]

\* results.sort(key=lambda x: x["match_score"], reverse=True): a stable
\* sort, entries of equal score keep their order
ScoreAbove(a, b) == ~RatLeq(a.match_score, b.match_score)
SortByScore(rs) ==
    LET n == Len(rs)
        Before(i, j) == \/ ScoreAbove(rs[i], rs[j])
                        \/ RatEq(rs[i].match_score, rs[j].match_score) /\ i < j
        Rank(i) == 1 + Cardinality({j \in 1..n : j # i /\ Before(j, i)})
    IN [k \in 1..n |-> rs[CHOOSE i \in 1..n : Rank(i) = k]]

\* results[:n]
Slice(rs, n) ==
    IF n >= 0
    THEN SubSeq(rs, 1, IF n < Len(rs) THEN n ELSE Len(rs))
    ELSE SubSeq(rs, 1, IF Len(rs) + n > 0 THEN Len(rs) + n ELSE 0)

\* a keyword as it reads when used as a skill
SkillText(kw) == IF kw = <<"a","w","s">> THEN "aws" ELSE "other"
\* if not criteria.get("skills") and criteria.get("keywords"):
\*     criteria["skills"] = criteria["keywords"]
KeywordsAsSkills(crit) ==
    IF crit.skills = <<>> /\ crit.keywords # <<>>
    THEN [crit EXCEPT !.skills = [i \in 1..Len(crit.keywords) |-> SkillText(crit.keywords[i])]]
    ELSE crit

\* the loop of the handler: a candidate whose scoring raises is logged and
\* passed over (except Exception: continue)
RouterScored(pool, crit) ==
    LET kept == SelectSeq(Positions(pool), LAMBDA i : ~Raises(pool[i], crit))
    IN [k \in 1..Len(kept) |-> Entry(pool, crit, kept[k])]

\* the filters of the query; a comparison with a NULL column selects
\* nothing.  Candidate.skills.contains(skill) looks for the skill in the
\* stored JSON text, which for skill names none of which is part of another
\* is membership in the list.
Passes(cand, crit) ==
    /\ crit.skills # <<>> => \A i \in 1..Len(crit.skills) : crit.skills[i] \in Range(cand.skills)
    /\ HasExperienceMin(crit) =>
           IsSome(cand.experience_years) /\ Val(cand.experience_years) >= Val(crit.experience_min)
    /\ (IsSome(crit.experience_max) /\ Val(crit.experience_max) # 0) =>
           IsSome(cand.experience_years) /\ Val(cand.experience_years) <= Val(crit.experience_max)
    /\ Truthy(crit.location) =>
           IsSome(cand.location) /\ Contains(Val(cand.location), Val(crit.location))

\* query.limit(max_results).all(): the first max_results selected rows
Selected(pool, crit, n) ==
    Slice(SelectSeq(Positions(pool), LAMBDA i : Passes(pool[i], crit)), n)

SearchA == [skills |-> <<"Python">>, experience_years |-> Some(3),
            location |-> None, resume_text |-> None]
SearchB == [skills |-> <<>>, experience_years |-> None,
            location |-> None, resume_text |-> Some(SkillsLine)]
SearchC == [skills |-> <<"AWS", "Go">>, experience_years |-> Some(1),
            location |-> Some(AustinTX), resume_text |-> Some(SkillsLine)]
SearchD == [skills |-> <<"Python", "AWS">>, experience_years |-> Some(5),
            location |-> None, resume_text |-> Some(SkillsLine)]
SearchCandidates == {SearchA, SearchB, SearchC, SearchD}
Pools == UNION {[1..n -> SearchCandidates] : n \in 0..MaxPool}
SearchCriterias ==
    {[skills |-> <<"Python">>, experience_min |-> Some(2), experience_max |-> None,
      location |-> None, keywords |-> <<<<"a","w","s">>>>],
     [skills |-> <<>>, experience_min |-> None, experience_max |-> None,
      location |-> None, keywords |-> <<<<"a","w","s">>>>],
     [skills |-> <<"AWS">>, experience_min |-> Some(0), experience_max |-> Some(4),
      location |-> None, keywords |-> <<>>]}

InitSearch ==
    /\ spool \in Pools
    /\ scrit \in SearchCriterias
    /\ smax \in 0..MaxPool
    /\ svia \in {"router", "service"}
    /\ sout = NoOut
    /\ qpc = "start"
    /\ IdleCampaigns
    /\ IdleUpload
    /\ IdleAI
    /\ IdleLog
    /\ IdleDelete
    /\ IdlePII
    /\ IdleStore
    /\ IdleScore
    /\ IdleFormat

RouterSearch ==
    /\ qpc = "start"
    /\ svia = "router"
    /\ sout' = [raised |-> FALSE,
                results |-> Slice(SortByScore(RouterScored(spool, KeywordsAsSkills(scrit))), smax),
                total_found |-> Len(RouterScored(spool, KeywordsAsSkills(scrit)))]
    /\ qpc' = "done"
    /\ UNCHANGED <<spool, scrit, smax, svia, campVars, upVars, aiVars, logVars, delVars, piiVars, storeVars, scoreVars, fmtVars>>

\* the loop of search_candidates has no handler: an exception of the
\* scorer leaves the method
ServiceSearch ==
    /\ qpc = "start"
    /\ svia = "service"
    /\ LET rows == Selected(spool, scrit, smax)
       IN IF \E k \in 1..Len(rows) : Raises(spool[rows[k]], scrit)
          THEN sout' = [NoOut EXCEPT !.raised = TRUE]
          ELSE sout' = [raised |-> FALSE,
                        results |-> SortByScore([k \in 1..Len(rows) |-> Entry(spool, scrit, rows[k])]),
                        total_found |-> Len(rows)]
    /\ qpc' = "done"
    /\ UNCHANGED <<spool, scrit, smax, svia, campVars, upVars, aiVars, logVars, delVars, piiVars, storeVars, scoreVars, fmtVars>>

NextSearch == RouterSearch \/ ServiceSearch
SpecSearch == InitSearch /\ [][NextSearch]_vars

\* ------------------------------------------------------------------------
\* OutreachService: create_campaign and send_campaign_emails.  The
\* candidate lookup and the SMTP send are outside the service; what they
\* answer for a recipient is chosen when the loop reaches it.
\* ------------------------------------------------------------------------
MaxCampaigns == 1
MaxTargets == 2
MaxSends == 2
TargetIds == {"c1", "c2"}
\* the target lists: the first n candidates, for every n up to MaxTargets
\* (what a pass of the loop meets does not depend on which candidate it is)
TargetLists == {[i \in 1..n |-> IF i % 2 = 1 THEN "c1" ELSE "c2"] : n \in 0..MaxTargets}
Templates == {"initial_connection", "no_such_template"}

\* campaign_data.update({"status": "draft", "emails_sent": 0, ...}); doc_ref.set.
\* completed counts the sends that reached the update of the document
\* (history for the claims, not a field of the document).
create_campaign(targets) ==
    [status |-> "draft", emails_sent |-> 0, sent_at |-> None,
     target_candidate_ids |-> targets, last_template_used |-> None, completed |-> 0]

CreateCampaign ==
    /\ Len(camps) < MaxCampaigns
    /\ \E targets \in TargetLists :
          camps' = Append(camps, create_campaign(targets))
    /\ UNCHANGED <<ouser, opc, ocur, oidx, osent, ofailed, oret, osends>>
    /\ UNCHANGED <<searchVars, upVars, aiVars, logVars, delVars, piiVars, storeVars, scoreVars, fmtVars>>

\* a call that goes on counting from the previous call's emails_sent
SendBegin_KeepsCount ==
    /\ opc \in {"idle", "done"}
    /\ osends < MaxSends
    /\ osends' = osends + 1
    /\ \E id \in 1..MaxCampaigns :
          /\ ocur' = id
          /\ IF id > Len(camps)
             THEN /\ opc' = "done"
                  /\ oret' = [NoRet EXCEPT !.message = "Campaign not found"]
             ELSE IF ~ouser
             THEN /\ opc' = "done"
                  /\ oret' = [NoRet EXCEPT !.message = "exception"]
             ELSE /\ opc' = "loop"
                  /\ oret' = NoRet
    /\ oidx' = 1
    /\ osent' = osent
    /\ ofailed' = <<>>
    /\ UNCHANGED <<camps, ouser>>
    /\ UNCHANGED <<searchVars, upVars, aiVars, logVars, delVars, piiVars, storeVars, scoreVars, fmtVars>>
\* the call up to its loop: an unknown campaign is answered at once; a
\* missing user document makes user_data None and user_data.get raise,
\* which the outer handler answers
SendBegin ==
    /\ opc \in {"idle", "done"}
    /\ osends < MaxSends
    /\ osends' = osends + 1
    /\ \E id \in 1..MaxCampaigns :
          /\ ocur' = id
          /\ IF id > Len(camps)
             THEN /\ opc' = "done"
                  /\ oret' = [NoRet EXCEPT !.message = "Campaign not found"]
             ELSE IF ~ouser
             THEN /\ opc' = "done"
                  /\ oret' = [NoRet EXCEPT !.message = "exception"]
             ELSE /\ opc' = "loop"
                  /\ oret' = NoRet
    /\ oidx' = 1
    /\ osent' = 0
    /\ ofailed' = <<>>
    /\ UNCHANGED <<camps, ouser>>
    /\ UNCHANGED <<searchVars, upVars, aiVars, logVars, delVars, piiVars, storeVars, scoreVars, fmtVars>>

\* what one pass of the loop meets: the candidate is missing, has no
\* email, the send answers False or True, or something raises
Outcomes == {"not_found", "no_email", "send_false", "sent", "exception"}
Failure(id, outcome) ==
    [candidate |-> id,
     why |-> CASE outcome \in {"not_found", "no_email"} -> "No email found"
              [] outcome = "send_false" -> "Failed to send"
              [] OTHER -> "Error"]

SendOne_SendFalseUnrecorded(outcome) ==
    /\ opc = "loop"
    /\ oidx <= Len(camps[ocur].target_candidate_ids)
    /\ IF outcome = "sent"
       THEN osent' = osent + 1 /\ UNCHANGED ofailed
       ELSE IF outcome = "send_false"
       THEN UNCHANGED <<osent, ofailed>>
       ELSE /\ ofailed' = Append(ofailed, Failure(camps[ocur].target_candidate_ids[oidx], outcome))
            /\ UNCHANGED osent
    /\ oidx' = oidx + 1
    /\ UNCHANGED <<camps, ouser, opc, ocur, oret, osends>>
    /\ UNCHANGED <<searchVars, upVars, aiVars, logVars, delVars, piiVars, storeVars, scoreVars, fmtVars>>

SendOne(outcome) ==
    /\ opc = "loop"
    /\ oidx <= Len(camps[ocur].target_candidate_ids)
    /\ IF outcome = "sent"
       THEN osent' = osent + 1 /\ UNCHANGED ofailed
       ELSE /\ ofailed' = Append(ofailed, Failure(camps[ocur].target_candidate_ids[oidx], outcome))
            /\ UNCHANGED osent
    /\ oidx' = oidx + 1
    /\ UNCHANGED <<camps, ouser, opc, ocur, oret, osends>>
    /\ UNCHANGED <<searchVars, upVars, aiVars, logVars, delVars, piiVars, storeVars, scoreVars, fmtVars>>

\* after the loop: the campaign document is updated and the summary
\* returned; sent_at, the time of the update, is told by the number of the call
SendFinish_OnlyIfSent(template) ==
    /\ opc = "loop"
    /\ oidx > Len(camps[ocur].target_candidate_ids)
    /\ camps' = IF osent = 0 THEN camps
                ELSE [camps EXCEPT ![ocur].status = "sent",
                                   ![ocur].emails_sent = osent,
                                   ![ocur].sent_at = Some(osends),
                                   ![ocur].last_template_used = Some(template),
                                   ![ocur].completed = @ + 1]
    /\ oret' = [success |-> TRUE, emails_sent |-> osent, failed_emails |-> ofailed,
                message |-> "Campaign sent"]
    /\ opc' = "done"
    /\ UNCHANGED <<ouser, ocur, oidx, osent, ofailed, osends>>
    /\ UNCHANGED <<searchVars, upVars, aiVars, logVars, delVars, piiVars, storeVars, scoreVars, fmtVars>>

SendFinish(template) ==
    /\ opc = "loop"
    /\ oidx > Len(camps[ocur].target_candidate_ids)
    /\ camps' = [camps EXCEPT ![ocur].status = "sent",
                              ![ocur].emails_sent = osent,
                              ![ocur].sent_at = Some(osends),
                              ![ocur].last_template_used = Some(template),
                              ![ocur].completed = @ + 1]
    /\ oret' = [success |-> TRUE, emails_sent |-> osent, failed_emails |-> ofailed,
                message |-> "Campaign sent"]
    /\ opc' = "done"
    /\ UNCHANGED <<ouser, ocur, oidx, osent, ofailed, osends>>
    /\ UNCHANGED <<searchVars, upVars, aiVars, logVars, delVars, piiVars, storeVars, scoreVars, fmtVars>>

InitCampaigns ==
    /\ camps = <<>>
    /\ ouser \in BOOLEAN
    /\ opc = "idle"
    /\ ocur = 0
    /\ oidx = 0
    /\ osent = 0
    /\ ofailed = <<>>
    /\ oret = NoRet
    /\ osends = 0
    /\ IdleSearch
    /\ IdleUpload
    /\ IdleAI
    /\ IdleLog
    /\ IdleDelete
    /\ IdlePII
    /\ IdleStore
    /\ IdleScore
    /\ IdleFormat

NextCampaigns ==
    \/ CreateCampaign
    \/ SendBegin
    \/ \E outcome \in Outcomes : SendOne(outcome)
    \/ \E template \in Templates : SendFinish(template)
SpecCampaigns == InitCampaigns /\ [][NextCampaigns]_vars

\* ------------------------------------------------------------------------
\* upload_resume (POST /candidates/upload-resume): the filename is
\* validated, then the file is parsed, the candidate stored and the record
\* formatted with the help of the external service.
\* ------------------------------------------------------------------------
MaxUploads == 2
EndsWith(t, s) == Len(t) >= Len(s) /\ SubSeq(t, Len(t) - Len(s) + 1, Len(t)) = s
DotPdf == <<".","p","d","f">>
DotDocx == <<".","d","o","c","x">>
\* file.filename.endswith(('.pdf', '.docx'))
SupportedFile(name) == EndsWith(name, DotPdf) \/ EndsWith(name, DotDocx)
UnsupportedDetail == "Unsupported file format. Please upload a PDF or DOCX file."
Filenames ==
    {<<"c","v",".","p","d","f">>, <<"c","v",".","d","o","c","x">>, <<"c","v",".","t","x","t">>, <<"c","v",".","P","D","F">>,
     <<"c","v",".","p","d","f",".","b","a","k">>, <<"p","d","f">>}
Contents == StoreEmails \cup {"unreadable"}

UploadBegin_CheckedByParser(name, content) ==
    /\ upc \in {"idle", "done"}
    /\ uploads < MaxUploads
    /\ uploads' = uploads + 1
    /\ ufile' = name
    /\ ucontent' = content
    /\ ueffects' = {}
    /\ upc' = "parse"
    /\ ures' = NoUploadResponse
    /\ UNCHANGED storeVars
    /\ UNCHANGED <<searchVars, campVars, aiVars, logVars, delVars, piiVars, scoreVars, fmtVars>>

UploadBegin(name, content) ==
    /\ upc \in {"idle", "done"}
    /\ uploads < MaxUploads
    /\ uploads' = uploads + 1
    /\ ufile' = name
    /\ ucontent' = content
    /\ ueffects' = {}
    /\ IF ~SupportedFile(name)
       THEN /\ upc' = "done"
            /\ ures' = [code |-> 400, detail |-> UnsupportedDetail]
       ELSE /\ upc' = "parse"
            /\ ures' = NoUploadResponse
    /\ UNCHANGED storeVars
    /\ UNCHANGED <<searchVars, campVars, aiVars, logVars, delVars, piiVars, scoreVars, fmtVars>>

\* parse_resume_to_candidate: extract_text raises ValueError for a file it
\* cannot read and for a name that is neither .pdf nor .docx; the handler
\* answers any exception with status 500
UploadParse ==
    /\ upc = "parse"
    /\ ueffects' = ueffects \cup {"extract"}
    /\ IF ucontent = "unreadable" \/ ~SupportedFile(ufile)
       THEN /\ upc' = "done"
            /\ ures' = [code |-> 500, detail |-> "Resume processing failed"]
       ELSE /\ upc' = "store"
            /\ UNCHANGED ures
    /\ UNCHANGED <<ufile, ucontent, uploads, storeVars>>
    /\ UNCHANGED <<searchVars, campVars, aiVars, logVars, delVars, piiVars, scoreVars, fmtVars>>

\* create_candidate, alone on the table: the row is inserted unless its
\* email is there already
UploadStore ==
    /\ upc = "store"
    /\ ueffects' = ueffects \cup {"store"}
    /\ IF RowsWithEmail(ucontent) = {}
       THEN /\ store' = store \cup {[id |-> nextId, email |-> ucontent, name |-> "Ann"]}
            /\ nextId' = nextId + 1
       ELSE UNCHANGED <<store, nextId>>
    /\ upc' = "format"
    /\ UNCHANGED <<ufile, ucontent, ures, uploads, cpc, creq, cres, ccalls>>
    /\ UNCHANGED <<searchVars, campVars, aiVars, logVars, delVars, piiVars, scoreVars, fmtVars>>

\* format_resume_output, which calls the external service, and the answer
UploadFormat ==
    /\ upc = "format"
    /\ ueffects' = ueffects \cup {"external"}
    /\ ures' = [code |-> 200, detail |-> ""]
    /\ upc' = "done"
    /\ UNCHANGED <<ufile, ucontent, uploads, storeVars>>
    /\ UNCHANGED <<searchVars, campVars, aiVars, logVars, delVars, piiVars, scoreVars, fmtVars>>

InitUpload ==
    /\ IdleUpload
    /\ IdleSearch
    /\ IdleCampaigns
    /\ IdleAI
    /\ IdleLog
    /\ IdleDelete
    /\ IdlePII
    /\ IdleStore
    /\ IdleScore
    /\ IdleFormat

NextUpload ==
    \/ \E name \in Filenames, content \in Contents : UploadBegin(name, content)
    \/ UploadParse
    \/ UploadStore
    \/ UploadFormat
SpecUpload == InitUpload /\ [][NextUpload]_vars

\* ------------------------------------------------------------------------
\* ResumeFormatterService.  A record is modelled by its shape (whether the
\* envelope and its candidate are dictionaries, whether status is null,
\* whether resume_text is a string, null or missing) and its field values.
\* ------------------------------------------------------------------------
OrElse(a, b) == IF Truthy(a) THEN a ELSE b
DigitSeq == <<"0","1","2","3","4","5","6","7","8","9">>
RECURSIVE IntStr(_)
IntStr(n) == IF n < 10 THEN <<DigitSeq[n + 1]>> ELSE IntStr(n \div 10) \o <<DigitSeq[(n % 10) + 1]>>

\* json.dumps of a string: quotes, backslashes and newlines are escaped
JsonEscape(t) ==
    ReplaceAll(ReplaceAll(ReplaceAll(t, <<"\\">>, <<"\\","\\">>),
                          <<"\"">>, <<"\\","\"">>),
               <<NL>>, <<"\\","n">>)
JsonString(t) == <<"\"">> \o JsonEscape(t) \o <<"\"">>
JsonNull == <<"n","u","l","l">>
JsonOptString(o) == IF IsSome(o) THEN JsonString(Val(o)) ELSE JsonNull
JsonOptInt(o) == IF IsSome(o) THEN IntStr(Val(o)) ELSE JsonNull
JsonList(l) == <<"[">> \o Join([i \in 1..Len(l) |-> JsonString(l[i])], <<",", " ">>) \o <<"]">>
JsonKey(k) == JsonString(k) \o <<":", " ">>

CandidateId == 1
CreatedAt == <<"2","0","2","4","-","0","1","-","0","1","T","0","0",":","0","0",":","0","0">>

\* lines 92-118: a copy of the candidate without name, email and phone,
\* its resume_text (when present) replaced by the sanitized text
_create_sanitized_candidate_data(r, t, p) ==
    [empty |-> r.cand = "absent",
     id |-> CandidateId,
     skills |-> r.skills,
     experience_years |-> r.experience_years,
     location |-> r.location,
     has_text |-> r.text_kind = "str",
     resume_text |-> IF r.text_kind = "str" THEN sanitize_text_for_llm(t, p) ELSE <<>>,
     resume_filename |-> r.filename,
     created_at |-> CreatedAt]

\* json.dumps(sanitized_data), keys in the order upload_resume inserts them
json_dumps(d) ==
    IF d.empty THEN <<"{", "}">>
    ELSE <<"{">>
         \o Join(<<JsonKey(<<"i","d">>) \o IntStr(d.id),
                   JsonKey(<<"s","k","i","l","l","s">>) \o JsonList(d.skills),
                   JsonKey(<<"e","x","p","e","r","i","e","n","c","e","_","y","e","a","r","s">>) \o JsonOptInt(d.experience_years),
                   JsonKey(<<"l","o","c","a","t","i","o","n">>) \o JsonOptString(d.location)>>
                 \o (IF d.has_text THEN <<JsonKey(<<"r","e","s","u","m","e","_","t","e","x","t">>) \o JsonString(d.resume_text)>> ELSE <<>>)
                 \o <<JsonKey(<<"r","e","s","u","m","e","_","f","i","l","e","n","a","m","e">>) \o JsonString(d.resume_filename),
                      JsonKey(<<"c","r","e","a","t","e","d","_","a","t">>) \o JsonString(d.created_at)>>,
                 <<",", " ">>)
         \o <<"}">>

\* lines 120-160: the prompt embeds the dump of the sanitized data after a
\* fixed instruction text (abbreviated to the line that introduces the data)
PromptDataLabel == <<"S","a","n","i","t","i","z","e","d"," ","r","e","s","u","m","e"," ","d","a","t","a",":"," ">>
Prompt(d) == PromptDataLabel \o json_dumps(d)

\* _clean_name, _clean_email, _clean_phone, _extract_location,
\* _clean_experience, _clean_skills (lines 373-453)
_clean_name(o) ==
    IF ~Truthy(o) THEN None
    ELSE LET cleaned == Join(SplitWs(Val(o)), <<" ">>)
         IN IF cleaned # <<>> THEN Some(cleaned) ELSE None
_clean_email(o) ==
    IF ~Truthy(o) THEN None
    ELSE LET cleaned == LowerStr(Strip(Val(o)))
         IN IF Contains(cleaned, <<"@">>) /\ Contains(cleaned, <<".">>) THEN Some(cleaned) ELSE None
_clean_phone(o) ==
    IF ~Truthy(o) THEN None
    ELSE IF Strip(Val(o)) # <<>> THEN Some(Strip(Val(o))) ELSE None
_extract_location(o) ==
    IF ~Truthy(o) THEN None
    ELSE IF Strip(Val(o)) # <<>> THEN Some(Strip(Val(o))) ELSE None
_clean_experience(o) ==
    IF ~IsSome(o) THEN Some(0)
    ELSE Some(IF Val(o) > 0 THEN Val(o) ELSE 0)
_clean_skills(l) ==
    LET stripped == [i \in 1..Len(l) |-> Strip(l[i])]
    IN SelectSeq(stripped, LAMBDA x : x # <<>>)

NoteLLM == "Processed with Enhanced PII protection - No personal data sent to external APIs"
NoteLocal == "Processed with Enhanced PII protection (LLM fallback mode)"
NoteMinimal == "Processed with minimal formatting due to errors"
NoteFailed == "Processing failed"
Unknown == <<"U","n","k","n","o","w","n">>

\* FrontendResumeResponse(status=..., filename=..., is_new=...) validates:
\* status must be a string
EnvelopeValid(r) == r.envelope = "ok"
\* FormattedCandidateData(skills=...) validates: a list of strings
SkillsValid(kind) == kind \in {"list", "absent"}

\* lines 162-188
_combine_pii_and_non_pii(p, l, r) ==
    [name |-> OrElse(p.name, r.name),
     email |-> OrElse(p.email, r.email),
     phone |-> OrElse(p.phone, r.phone),
     skills |-> IF l.skills_kind = "absent" THEN r.skills ELSE l.skills,
     experience_years |-> IF IsSome(l.experience_years) /\ Val(l.experience_years) # 0
                          THEN l.experience_years ELSE r.experience_years,
     location |-> OrElse(l.location, r.location)]

\* the response of lines 66-74
FullResponse(p, l, r) ==
    LET c == _combine_pii_and_non_pii(p, l, r)
    IN [status |-> r.status, name |-> c.name, email |-> c.email, phone |-> c.phone,
        location |-> c.location, experience_years |-> c.experience_years, skills |-> c.skills,
        filename |-> r.filename, is_new |-> r.is_new, note |-> Some(NoteLLM), tier |-> "llm"]

\* a fallback that prefers the record's own fields to the local extraction
_fallback_with_enhanced_local_pii_RawFirst(r, p) ==
    [status |-> r.status,
     name |-> OrElse(_clean_name(r.name), p.name),
     email |-> OrElse(_clean_email(r.email), p.email),
     phone |-> OrElse(_clean_phone(r.phone), p.phone),
     location |-> _extract_location(r.location),
     experience_years |-> _clean_experience(r.experience_years),
     skills |-> _clean_skills(r.skills),
     filename |-> r.filename, is_new |-> r.is_new, note |-> Some(NoteLocal), tier |-> "local"]
\* lines 190-216, the try block
_fallback_with_enhanced_local_pii(r, p) ==
    [status |-> r.status,
     name |-> OrElse(p.name, _clean_name(r.name)),
     email |-> OrElse(p.email, _clean_email(r.email)),
     phone |-> OrElse(p.phone, _clean_phone(r.phone)),
     location |-> _extract_location(r.location),
     experience_years |-> _clean_experience(r.experience_years),
     skills |-> _clean_skills(r.skills),
     filename |-> r.filename, is_new |-> r.is_new, note |-> Some(NoteLocal), tier |-> "local"]

\* lines 294-320, the try block
_fallback_formatting(r) ==
    [status |-> r.status,
     name |-> _clean_name(r.name),
     email |-> _clean_email(r.email),
     phone |-> _clean_phone(r.phone),
     location |-> _extract_location(r.location),
     experience_years |-> _clean_experience(r.experience_years),
     skills |-> _clean_skills(r.skills),
     filename |-> r.filename, is_new |-> r.is_new, note |-> r.note, tier |-> "fallback"]

\* lines 326-353, the try block
_minimal_fallback(r) ==
    [status |-> "success",
     name |-> IF Truthy(r.name) THEN r.name ELSE Some(Unknown),
     email |-> IF Truthy(r.email) THEN r.email ELSE None,
     phone |-> IF Truthy(r.phone) THEN r.phone ELSE None,
     location |-> IF Truthy(r.location) THEN r.location ELSE None,
     experience_years |-> Some(0),
     skills |-> <<>>,
     filename |-> r.filename, is_new |-> r.is_new, note |-> Some(NoteMinimal), tier |-> "minimal"]

\* lines 354-371, the except block
ErrorResponse ==
    [status |-> "error", name |-> Some(Unknown), email |-> None, phone |-> None,
     location |-> None, experience_years |-> Some(0), skills |-> <<>>,
     filename |-> <<>>, is_new |-> TRUE, note |-> Some(NoteFailed), tier |-> "error"]

\* what a step may do beyond what the record determines
Faults == IF faulty THEN BOOLEAN ELSE {FALSE}

\* lines 26-47: .get on a non-dictionary, .keys() on a non-dictionary
\* candidate and len() of a null resume_text raise
BeginRaises(r) == r.envelope = "not_dict" \/ r.cand = "not_dict" \/ r.text_kind = "null"

\* format_resume_output up to the submission of the prompt (lines 26-47,
\* 120-153); an exception leaves for the handler of line 80
FormatBegin ==
    /\ fpc = "start"
    /\ \E fault \in Faults :
         IF fault \/ BeginRaises(raw)
         THEN /\ fpc' = "except"
              /\ UNCHANGED <<pii, found, sanitized, payload>>
         ELSE /\ found' = MethodResults(text, nlp, ner)
              /\ pii' = Vote(found')
              /\ sanitized' = _create_sanitized_candidate_data(raw, text, pii').resume_text
              /\ payload' = Some(Prompt(_create_sanitized_candidate_data(raw, text, pii')))
              /\ fpc' = "calling"
    /\ UNCHANGED <<text, nlp, ner, ppc, raw, faulty, llm, response, storeVars, scoreVars, opsVars>>

\* what _call_groq_api can return (lines 222-278): None after a non-200
\* status, a request error or timeout, or a reply without a JSON object;
\* otherwise the parsed object
RemoteFailures == {"status", "network", "timeout", "nojson"}
LlmOutcomes ==
    {[NoLlm EXCEPT !.why = w] : w \in RemoteFailures}
    \cup {[NoLlm EXCEPT !.ok = TRUE]}
    \cup [ok : {TRUE}, why : {""}, empty : {FALSE},
          skills_kind : {"list", "absent", "null"},
          skills : {<<<<"A","W","S">>>>},
          experience_years : {None, Some(3), Some(-2)},
          location : {None, Some(AustinTX)}]
LlmTruthy(l) == l.ok /\ ~l.empty

\* the remote call returns (lines 153-160, 48-50)
RemoteCall ==
    /\ fpc = "calling"
    /\ \E o \in LlmOutcomes :
         /\ llm' = o
         /\ fpc' = IF LlmTruthy(o) THEN "combine" ELSE "local"
    /\ UNCHANGED <<piiVars, raw, faulty, payload, response, storeVars, scoreVars, opsVars>>

\* lines 51-74: combine, build the response models, return
Combine ==
    /\ fpc = "combine"
    /\ \E fault \in Faults :
         IF fault \/ ~SkillsValid(llm.skills_kind) \/ ~EnvelopeValid(raw)
         THEN fpc' = "except" /\ UNCHANGED response
         ELSE fpc' = "returned" /\ response' = FullResponse(pii, llm, raw)
    /\ UNCHANGED <<piiVars, raw, faulty, payload, llm, storeVars, scoreVars, opsVars>>

\* lines 75-78 and 190-219
LocalFallback ==
    /\ fpc = "local"
    /\ \E fault \in Faults :
         IF fault \/ ~EnvelopeValid(raw)
         THEN fpc' = "minimal" /\ UNCHANGED response
         ELSE fpc' = "returned" /\ response' = _fallback_with_enhanced_local_pii(raw, pii)
    /\ UNCHANGED <<piiVars, raw, faulty, payload, llm, storeVars, scoreVars, opsVars>>

\* lines 80-90 and 294-323: the handler of the outer try
FallbackFormatting ==
    /\ fpc = "except"
    /\ \E fault \in Faults :
         IF fault \/ raw.cand = "not_dict" \/ ~EnvelopeValid(raw)
         THEN fpc' = "minimal" /\ UNCHANGED response
         ELSE fpc' = "returned" /\ response' = _fallback_formatting(raw)
    /\ UNCHANGED <<piiVars, raw, faulty, payload, llm, storeVars, scoreVars, opsVars>>

\* a minimal fallback without its own handler
MinimalFallback_Uncaught ==
    /\ fpc = "minimal"
    /\ \E fault \in Faults :
         IF fault \/ raw.envelope = "not_dict" \/ raw.cand = "not_dict"
         THEN fpc' = "raised" /\ UNCHANGED response
         ELSE fpc' = "returned" /\ response' = _minimal_fallback(raw)
    /\ UNCHANGED <<piiVars, raw, faulty, payload, llm, storeVars, scoreVars, opsVars>>
\* lines 326-371: _minimal_fallback returns from its try block or from its
\* except block
MinimalFallback ==
    /\ fpc = "minimal"
    /\ \E fault \in Faults :
         /\ fpc' = "returned"
         /\ response' = IF fault \/ raw.envelope = "not_dict" \/ raw.cand = "not_dict"
                        THEN ErrorResponse
                        ELSE _minimal_fallback(raw)
    /\ UNCHANGED <<piiVars, raw, faulty, payload, llm, storeVars, scoreVars, opsVars>>

\* the records upload_resume builds (routers/candidates.py lines 92-115)
OtherName == <<"A","n","n"," ","L","e","e">>
CvFile == <<"c","v",".","p","d","f">>
NoteExists == "Resume was processed but candidate already exists in database"
Envelopes ==
    {[status |-> "success", is_new |-> TRUE, note |-> None],
     [status |-> "exists", is_new |-> FALSE, note |-> Some(NoteExists)]}
UploadRecords ==
    {[envelope |-> "ok", status |-> e.status, is_new |-> e.is_new, note |-> e.note,
      filename |-> CvFile, cand |-> "dict", text_kind |-> "str",
      name |-> Some(n), email |-> Some(JaneEmail), phone |-> ph,
      skills |-> <<<<"A","W","S">>>>, experience_years |-> x, location |-> None] :
        e \in Envelopes, n \in {NameLine, OtherName},
        ph \in {None, Some(PlainPhoneLine)}, x \in {None, Some(3)}}
FormatTexts ==
    {JaneDoeResume,
     Join(<<DashedPhoneLine, EmailLine>>, <<NL>>),
     Join(<<NameLine, PlainPhoneLine>>, <<NL>>),
     Join(<<ShortNameLine, SkillsLine>>, <<NL>>),
     SkillsLine}

\* any record: a non-dictionary, a null status, a missing or
\* non-dictionary candidate, a null or missing resume_text, null fields
AnyRecords ==
    {[envelope |-> env, status |-> "success", is_new |-> TRUE, note |-> None,
      filename |-> CvFile, cand |-> c, text_kind |-> IF c = "dict" THEN k ELSE "absent",
      name |-> IF c = "dict" THEN n ELSE None, email |-> None, phone |-> None,
      skills |-> <<>>, experience_years |-> None, location |-> None] :
        env \in {"ok", "null_status", "not_dict"}, c \in {"dict", "absent", "not_dict"},
        k \in {"str", "null", "absent"}, n \in {None, Some(OtherName)}}

InitFormatWith(records, mayFault) ==
    /\ raw \in records
    /\ text \in IF raw.text_kind = "str" THEN FormatTexts ELSE {<<>>}
    /\ nlp \in BOOLEAN
    /\ ner \in IF nlp THEN NerOutcomes(text) ELSE {None}
    /\ pii = NoPII
    /\ found = NoFound
    /\ sanitized = <<>>
    /\ ppc = "idle"
    /\ faulty = mayFault
    /\ fpc = "start"
    /\ payload = None
    /\ llm = NoLlm
    /\ response = NoResponse
    /\ IdleStore
    /\ IdleScore
    /\ IdleOps

\* formatting the records of uploads, where only the remote call can fail
InitFormat == InitFormatWith(UploadRecords, FALSE)
NextFormat == FormatBegin \/ RemoteCall \/ Combine \/ LocalFallback \/ FallbackFormatting
SpecFormat == InitFormat /\ [][NextFormat]_vars

\* formatting any record, every step liable to raise
InitRobust == InitFormatWith(AnyRecords, TRUE)
NextRobust == NextFormat \/ MinimalFallback
SpecRobust == InitRobust /\ [][NextRobust]_vars

\* ------------------------------------------------------------------------
\* PII extraction followed by sanitization (the test_enhanced_pii route and
\* steps 1 and 2 of the formatter)
\* ------------------------------------------------------------------------
InitPII ==
    /\ text \in Texts
    /\ nlp \in BOOLEAN
    /\ ner \in NerOutcomes(text)
    /\ pii = NoPII
    /\ found = NoFound
    /\ sanitized = <<>>
    /\ ppc = "input"
    /\ IdleStore
    /\ IdleScore
    /\ IdleFormat
    /\ IdleOps

ExtractPII ==
    /\ ppc = "input"
    /\ found' = MethodResults(text, nlp, ner)
    /\ pii' = Vote(found')
    /\ ppc' = "extracted"
    /\ UNCHANGED <<text, nlp, ner, sanitized, storeVars, scoreVars, fmtVars, opsVars>>

SanitizeText ==
    /\ ppc = "extracted"
    /\ sanitized' = sanitize_text_for_llm(text, pii)
    /\ ppc' = "sanitized"
    /\ UNCHANGED <<text, nlp, ner, pii, found, storeVars, scoreVars, fmtVars, opsVars>>

NextPII == ExtractPII \/ SanitizeText
SpecPII == InitPII /\ [][NextPII]_vars

\* the extractor on texts that open like a letter
DearSirLine == <<"D","e","a","r"," ","S","i","r">>
ToWhomLine == <<"T","o"," ","W","h","o","m">>
LetterLineMenu == {DearSirLine, ToWhomLine, NameLine, EmailLine, PlainPhoneLine}
LetterTexts == {Join(ls, <<NL>>) : ls \in UNION {[1..n -> LetterLineMenu] : n \in 1..MaxLines}}
InitLetter ==
    /\ text \in LetterTexts
    /\ nlp \in BOOLEAN
    /\ ner \in NerOutcomes(text)
    /\ pii = NoPII
    /\ found = NoFound
    /\ sanitized = <<>>
    /\ ppc = "input"
    /\ IdleStore
    /\ IdleScore
    /\ IdleFormat
    /\ IdleOps
NextLetter == ExtractPII \/ SanitizeText
SpecLetter == InitLetter /\ [][NextLetter]_vars

\* sanitizing twice: the sanitized text is sanitized again with the same
\* extraction result, for resumes whose names have short common tokens
MaiTranLine == <<"M","a","i"," ","T","r","a","n">>
NamTranLine == <<"N","a","m"," ","T","r","a","n">>
TranNamLine == <<"T","r","a","n"," ","N","a","m">>
TwiceLineMenu == {MaiTranLine, NamTranLine, TranNamLine, NameLine, EmailLine, PlainPhoneLine, SkillsLine}
TwiceTexts == {Join(ls, <<NL>>) : ls \in UNION {[1..n -> TwiceLineMenu] : n \in 1..MaxLines}}
InitTwice ==
    /\ text \in TwiceTexts
    /\ nlp \in BOOLEAN
    /\ ner \in NerOutcomes(text)
    /\ pii = NoPII
    /\ found = NoFound
    /\ sanitized = <<>>
    /\ ppc = "input"
    /\ IdleStore
    /\ IdleScore
    /\ IdleFormat
    /\ IdleOps

SanitizeAgain ==
    /\ ppc = "sanitized"
    /\ sanitized' = sanitize_text_for_llm(sanitized, pii)
    /\ ppc' = "resanitized"
    /\ UNCHANGED <<text, nlp, ner, pii, found, storeVars, scoreVars, fmtVars, opsVars>>

NextTwice == ExtractPII \/ SanitizeText \/ SanitizeAgain
SpecTwice == InitTwice /\ [][NextTwice]_vars

\* ------------------------------------------------------------------------
\* AIService.process_search_query: the query is sent to the completion
\* endpoint and the JSON object in the answer is returned; when that fails
\* the criteria are extracted locally.
\* ------------------------------------------------------------------------
skills_db == <<
    <<"p","y","t","h","o","n">>,
    <<"j","a","v","a","s","c","r","i","p","t">>,
    <<"r","e","a","c","t">>,
    <<"n","o","d","e",".","j","s">>,
    <<"s","q","l">>,
    <<"a","w","s">>,
    <<"d","o","c","k","e","r">>,
    <<"m","a","c","h","i","n","e"," ","l","e","a","r","n","i","n","g">>,
    <<"a","i">>,
    <<"t","e","n","s","o","r","f","l","o","w">>,
    <<"p","y","t","o","r","c","h">>,
    <<"j","a","v","a">>,
    <<"c","+","+">>,
    <<"k","u","b","e","r","n","e","t","e","s">>,
    <<"m","o","n","g","o","d","b">>,
    <<"p","o","s","t","g","r","e","s","q","l">>,
    <<"d","j","a","n","g","o">>,
    <<"f","l","a","s","k">>,
    <<"f","a","s","t","a","p","i">>,
    <<"v","u","e">>,
    <<"a","n","g","u","l","a","r">>,
    <<"t","y","p","e","s","c","r","i","p","t">>,
    <<"r","e","d","i","s">>,
    <<"e","l","a","s","t","i","c","s","e","a","r","c","h">>,
    <<"g","i","t">> >>

\* [skill for skill in skills_db if skill.lower() in text.lower()]
_extract_skills_from_text(t) == SelectSeq(skills_db, LAMBDA skill : ContainsCI(t, skill))

\* r'(\d+)\+?\s*years?'
years_pattern ==
    InGroup(<<Plus(Digit)>>, 1) \o <<Opt({"+"}), Star(Space), Lit(<<"y","e","a","r">>), Opt({"s"})>>
\* int() of a string of digits
RECURSIVE ParseInt(_)
ParseInt(ds) ==
    IF ds = <<>> THEN 0
    ELSE ParseInt(SubSeq(ds, 1, Len(ds) - 1)) * 10
            + (CHOOSE i \in 1..10 : DigitSeq[i] = ds[Len(ds)]) - 1

FallbackExperienceMax == 20
_fallback_extraction(query) ==
    LET m == Search(LowerStr(query), years_pattern)
    IN [type |-> "object",
        fields |-> [skills |-> _extract_skills_from_text(query),
                    experience_min |-> IF m # <<>>
                                       THEN Some(ParseInt(GroupN(LowerStr(query), years_pattern, m, 1)))
                                       ELSE Some(0),
                    experience_max |-> Some(FallbackExperienceMax),
                    location |-> None,
                    job_title |-> None,
                    keywords |-> SplitWs(query)]]

\* json.loads over the texts in use: the documents it accepts and their
\* values; it raises JSONDecodeError for every other text
GoCriteria == [type |-> "object", fields |-> [skills |-> <<<<"g","o">>>>]]
JsonDocuments ==
    {<<<<"{","\"","s","k","i","l","l","s","\"",":"," ","[","\"","g","o","\"","]","}">>, GoCriteria>>,
     <<<<"4","2">>, [type |-> "number", n |-> 42]>>}
JsonDecodes(t) == \E d \in JsonDocuments : d[1] = t
json_loads(t) == (CHOOSE d \in JsonDocuments : d[1] = t)[2]

\* content.rfind('}'), -1 if none
RFindBrace(t) ==
    LET occ == {i \in 1..Len(t) : t[i] = "}"}
    IN IF occ = {} THEN -1 ELSE (CHOOSE i \in occ : \A j \in occ : j <= i) - 1
\* the text handed to json.loads: from the first '{' to the last '}' when
\* there is such a stretch, the whole content otherwise
JsonStretch(content) ==
    LET json_start == Find(content, <<"{">>, 0)
        json_end == RFindBrace(content) + 1
    IN IF json_start # -1 /\ json_end > json_start
       THEN Sub(content, json_start + 1, json_end)
       ELSE content

\* what the endpoint may answer: the request raises, a status other than
\* 200, a body that is no JSON, a body without choices, or a content text
RemoteContents ==
    {<<"{","\"","s","k","i","l","l","s","\"",":"," ","[","\"","g","o","\"","]","}">>,
     <<"S","u","r","e",":"," ","{","\"","s","k","i","l","l","s","\"",":"," ","[","\"","g","o","\"","]","}"," ","o","k">>,
     <<"n","o"," ","j","s","o","n">>,
     <<"{","o","o","p","s","}">>,
     <<"}"," ","{">>,
     <<"4","2">>,
     <<"{","\"","s","k","i","l","l","s","\"",":"," ","[","\"","g","o","\"","]","}"," ","{","\"","s","k","i","l","l","s","\"",":"," ","[","\"","g","o","\"","]","}">>,
     <<" ","{","\"","s","k","i","l","l","s","\"",":"," ","[","\"","g","o","\"","]","}",NL>>}
RemoteAnswers ==
    {[kind |-> k, code |-> 0, content |-> <<>>] : k \in {"network"}}
    \cup {[kind |-> "status", code |-> c, content |-> <<>>] : c \in {401, 429, 500}}
    \cup {[kind |-> k, code |-> 200, content |-> <<>>] : k \in {"bad_body", "no_choices"}}
    \cup {[kind |-> "content", code |-> 200, content |-> c] : c \in RemoteContents}
Queries ==
    {<<"p","y","t","h","o","n"," ","d","e","v"," ","5","+"," ","y","e","a","r","s">>,
     <<"j","a","v","a","s","c","r","i","p","t",","," ","1","0"," ","y","e","a","r","s">>,
     <<"s","e","n","i","o","r"," ","d","o","c","k","e","r">>,
     <<"3","y","e","a","r","s"," ","G","i","t"," ","a","n","d"," ","A","W","S">>,
     <<"y","e","a","r"," ","2"," ","y","e","a","r","s">>,
     <<>>}

process_search_query_Reraises(query, answer) ==
    IF answer.kind \in {"network", "bad_body", "no_choices"}
    THEN [raised |-> TRUE, value |-> [type |-> "none"]]
    ELSE IF answer.code # 200
    THEN [raised |-> FALSE, value |-> _fallback_extraction(query)]
    ELSE IF JsonDecodes(JsonStretch(Strip(answer.content)))
    THEN [raised |-> FALSE, value |-> json_loads(JsonStretch(Strip(answer.content)))]
    ELSE [raised |-> FALSE, value |-> _fallback_extraction(query)]

\* every exception inside the try block is answered by the fallback
process_search_query(query, answer) ==
    IF answer.kind \in {"network", "bad_body", "no_choices"}
    THEN [raised |-> FALSE, value |-> _fallback_extraction(query)]
    ELSE IF answer.code # 200
    THEN [raised |-> FALSE, value |-> _fallback_extraction(query)]
    ELSE IF JsonDecodes(JsonStretch(Strip(answer.content)))
    THEN [raised |-> FALSE, value |-> json_loads(JsonStretch(Strip(answer.content)))]
    ELSE [raised |-> FALSE, value |-> _fallback_extraction(query)]

InitAI ==
    /\ aquery \in Queries
    /\ aremote \in RemoteAnswers
    /\ aout = NoCriteria
    /\ apc = "start"
    /\ IdleSearch
    /\ IdleCampaigns
    /\ IdleUpload
    /\ IdleLog
    /\ IdleDelete
    /\ IdlePII
    /\ IdleStore
    /\ IdleScore
    /\ IdleFormat

ProcessSearchQuery ==
    /\ apc = "start"
    /\ aout' = process_search_query(aquery, aremote)
    /\ apc' = "done"
    /\ UNCHANGED <<aquery, aremote, searchVars, campVars, upVars, logVars, delVars>>
    /\ UNCHANGED <<piiVars, storeVars, scoreVars, fmtVars>>

NextAI == ProcessSearchQuery
SpecAI == InitAI /\ [][NextAI]_vars

\* ------------------------------------------------------------------------
\* AppLogger.get_logger (services/logger.py) called from several threads.
\* The method takes no lock: a thread can be preempted between the test of
\* line 8, the construction of lines 11-26 and the assignment of line 27.
\* logging.getLogger(name) yields the one logger the logging module keeps
\* for the name, so a logger is identified by its name.
\* ------------------------------------------------------------------------
\* lines 8-9: the test, and the return of the registered logger
GetLoggerLookup(t, name) ==
    /\ lpc[t] = "idle"
    /\ lcalls < MaxLogCalls
    /\ lcalls' = lcalls + 1
    /\ lname' = [lname EXCEPT ![t] = name]
    /\ IF IsSome(registry[name])
       THEN /\ lret' = [lret EXCEPT ![t] = registry[name]]
            /\ lpc' = lpc
       ELSE /\ lret' = [lret EXCEPT ![t] = None]
            /\ lpc' = [lpc EXCEPT ![t] = "create"]
    /\ UNCHANGED <<registry, pylog>>

\* lines 11-26: logging.getLogger(name), a new handler added to it
GetLoggerCreate(t) ==
    /\ lpc[t] = "create"
    /\ pylog' = [pylog EXCEPT ![lname[t]] = @ + 1]
    /\ lpc' = [lpc EXCEPT ![t] = "register"]
    /\ UNCHANGED <<registry, lname, lret, lcalls>>

\* lines 27-28: the registry entry is written and the logger returned
GetLoggerRegister(t) ==
    /\ lpc[t] = "register"
    /\ registry' = [registry EXCEPT ![lname[t]] = Some(lname[t])]
    /\ lret' = [lret EXCEPT ![t] = Some(lname[t])]
    /\ lpc' = [lpc EXCEPT ![t] = "idle"]
    /\ UNCHANGED <<pylog, lname, lcalls>>

InitLog ==
    /\ IdleLog
    /\ IdleDelete
    /\ IdleSearch
    /\ IdleCampaigns
    /\ IdleUpload
    /\ IdleAI
    /\ IdlePII
    /\ IdleStore
    /\ IdleScore
    /\ IdleFormat

NextLog ==
    /\ \E t \in Threads :
         \/ \E name \in LoggerNames : GetLoggerLookup(t, name)
         \/ GetLoggerCreate(t)
         \/ GetLoggerRegister(t)
    /\ UNCHANGED <<searchVars, campVars, upVars, aiVars, delVars, piiVars, storeVars, scoreVars, fmtVars>>
SpecLog == InitLog /\ [][NextLog]_vars

\* ------------------------------------------------------------------------
\* Claims about PII extraction and sanitization (SpecPII)
\* ------------------------------------------------------------------------
KnownEmails == EmailLines \cup {JaneEmail}
KnownPhones == PhoneLines \cup {JanePhone}
\* the text consists of exactly one line that is an email, exactly one
\* line that is a phone number of at least 10 digits, and lines without
\* an email or phone
OneEmailOnePhone(t) ==
    LET ls == SplitLines(t)
    IN /\ Cardinality({i \in 1..Len(ls) : ls[i] \in KnownEmails}) = 1
       /\ Cardinality({i \in 1..Len(ls) : ls[i] \in KnownPhones}) = 1
       /\ \A i \in 1..Len(ls) :
             ls[i] \in KnownEmails \cup KnownPhones \cup PlainLines
                       \cup {NameLine, ShortNameLine, JaneSkills}
TheEmail(t) == CHOOSE e \in KnownEmails : \E i \in 1..Len(SplitLines(t)) : SplitLines(t)[i] = e
ThePhone(t) == CHOOSE ph \in KnownPhones : \E i \in 1..Len(SplitLines(t)) : SplitLines(t)[i] = ph

\* C6: for a text with exactly one valid email and one valid phone of at
\* least 10 digits, the sanitized text contains neither the email nor the
\* phone as written, and contains both placeholder markers.
C6_OneEmailOnePhoneRedacted ==
    (ppc = "sanitized" /\ OneEmailOnePhone(text)) =>
        /\ ~Contains(sanitized, TheEmail(text))
        /\ ~Contains(sanitized, ThePhone(text))
        /\ Contains(sanitized, EMAIL_REMOVED)
        /\ Contains(sanitized, PHONE_REMOVED)

\* C7: for the four-line resume of Jane Doe the extractor resolves the
\* name, the email and the phone as written, and the sanitized text
\* contains none of "Jane", "Doe", the email, the phone.
C7_JaneDoeScenario ==
    (ppc = "sanitized" /\ text = JaneDoeResume) =>
        /\ pii.name = Some(NameLine)
        /\ pii.email = Some(JaneEmail)
        /\ pii.phone = Some(JanePhone)
        /\ ~Contains(sanitized, <<"J","a","n","e">>)
        /\ ~Contains(sanitized, <<"D","o","e">>)
        /\ ~Contains(sanitized, JaneEmail)
        /\ ~Contains(sanitized, JanePhone)

\* no extraction method finds a name, an email or a phone in the text
NoMethodHit ==
    /\ _extract_with_enhanced_regex(text) = NoPII
    /\ (nlp => _extract_with_spacy(text, ner) = NoPII)
    /\ _extract_from_structure(text) = NoPII
    /\ _extract_with_context(text) = NoPII

\* C8: when no extraction method finds an email, phone or name, the
\* extraction result has all three fields null (not an empty string), and
\* sanitizing with that result returns the input text unchanged.
C8_NoPiiNullAndNoop ==
    NoMethodHit =>
        /\ ppc # "input" => (pii.name = None /\ pii.email = None /\ pii.phone = None)
        /\ ppc = "sanitized" => sanitized = text
C8_Witness == ppc = "sanitized" /\ NoMethodHit /\ text # <<>>

\* ------------------------------------------------------------------------
\* Claims about candidate creation (SpecStore)
\* ------------------------------------------------------------------------
UniqueEmail == \A r1, r2 \in store : r1.email = r2.email => r1 = r2

\* the client's step out of the failed commit or out of the lookup
ConflictStep(c) ==
    \/ cpc[c] = "commit" /\ cpc'[c] = "rollback"
    \/ cpc[c] = "rollback" /\ cpc'[c] = "done"

\* C2: the store holds at most one candidate per email; a create whose
\* email is already stored returns 'exists' with the stored (first)
\* candidate's data, and neither adds, changes nor removes a row.
C2_EmailUniqueExistsUnchanged ==
    /\ [](UniqueEmail
          /\ \A c \in Clients :
                (cpc[c] = "done" /\ cres[c].action = "exists") =>
                    /\ cres[c].candidate \in store
                    /\ cres[c].candidate.email = creq[c].email)
    /\ [][/\ store \subseteq store'
          /\ \A c \in Clients :
               /\ ConflictStep(c) => store' = store
               /\ (cpc[c] = "commit" /\ cpc'[c] # "commit"
                     /\ RowsWithEmail(creq[c].email) # {}) => cpc'[c] = "rollback"
               /\ (cpc[c] = "rollback" /\ cpc'[c] = "done") => cres'[c].action = "exists"]_vars
C2_Witness ==
    \E c \in Clients :
        /\ cpc[c] = "done" /\ cres[c].action = "exists"
        /\ cres[c].candidate.name # creq[c].name

\* C3: of two calls for the same email that run concurrently, none lets a
\* duplicate-key error reach its caller, at most one inserts, the other
\* returns the stored record as 'exists', and one record with that email
\* is stored.
C3_RaceLoserReadsExisting ==
    \A c, d \in Clients :
        (c # d /\ cpc[c] = "done" /\ cpc[d] = "done" /\ creq[c].email = creq[d].email) =>
            /\ cres[c].action \in {"created", "exists"}
            /\ cres[d].action \in {"created", "exists"}
            /\ ~(cres[c].action = "created" /\ cres[d].action = "created")
            /\ cres[c].candidate = cres[d].candidate
            /\ RowsWithEmail(creq[c].email) = {cres[c].candidate}
\* both calls began before the email was stored; one inserted, the other
\* went through the failed commit and the lookup
C3_Witness ==
    \E c, d \in Clients :
        /\ c # d /\ cpc[c] = "done" /\ cpc[d] = "done"
        /\ creq[c].email = creq[d].email /\ creq[c].fresh /\ creq[d].fresh
        /\ cres[c].action = "created" /\ cres[d].action = "exists"

\* ------------------------------------------------------------------------
\* Claims about the match score (SpecScore)
\* ------------------------------------------------------------------------
ComponentSum(m) == RatAdd(RatAdd(m.skills, RatInt(m.experience + m.location)), m.keywords)
Clamp(n, lo, hi) == IF n < lo THEN lo ELSE IF n > hi THEN hi ELSE n

\* C9: the score returned for any candidate and criteria is an integer in
\* [0, 100], equal to the floor of the sum of the four components clamped
\* to that range.
C9_ScoreIsClampedFloor ==
    spc = "scored" =>
        /\ ~match.raised
        /\ RatIsInteger(match.score)
        /\ RatLeq(RatInt(0), match.score) /\ RatLeq(match.score, RatInt(ScoreCap))
        /\ RatEq(match.score, RatInt(Clamp(RatFloor(ComponentSum(match)), 0, ScoreCap)))

DefaultExperienceMin == 0
DefaultExperienceMax == 20
OrDefault(o, d) == IF IsSome(o) THEN Val(o) ELSE d
Max(a, b) == IF a >= b THEN a ELSE b
\* the experience component as the specification states it
StatedExperience(e, lo, hi) ==
    IF e < lo THEN Max(0, 30 - 5 * (lo - e))
    ELSE IF e > hi THEN 30 + 2 * (e - hi)
    ELSE 30

\* C10: the experience component is 30 when lo <= e <= hi, max(0, 30 -
\* 5*(lo - e)) when e < lo, and 30 + 2*(e - hi) when e > hi, with a missing
\* experience_years taken as 0 and missing bounds taken as 0 and 20.
C10_ExperienceComponent ==
    spc = "scored" =>
        /\ ~match.raised
        /\ match.experience =
              StatedExperience(OrDefault(candidate.experience_years, 0),
                               OrDefault(criteria.experience_min, DefaultExperienceMin),
                               OrDefault(criteria.experience_max, DefaultExperienceMax))

\* ------------------------------------------------------------------------
\* Claims about the formatter (SpecFormat, SpecRobust)
\* ------------------------------------------------------------------------
KnownNames == {NameLine, ShortNameLine, OtherName}
\* the names, emails and phones that occur in the resume text
TextPII(t) == {v \in KnownNames \cup KnownEmails \cup KnownPhones : Contains(t, v)}
\* the record's own name, email and phone
FieldPII(r) == {Val(o) : o \in {x \in {r.name, r.email, r.phone} : Truthy(x)}}

\* C1: the payload submitted to the external service contains neither the
\* name, the email nor the phone that occurs in the record's resume_text
\* or in its name, email and phone fields, and never the un-sanitized
\* resume_text.
C1_PayloadHasNoPII ==
    IsSome(payload) =>
        /\ \A v \in TextPII(text) \cup FieldPII(raw) : ~Contains(Val(payload), v)
        /\ TextPII(text) # {} => ~Contains(Val(payload), JsonEscape(text))

PIIFields == {"name", "email", "phone"}
RemoteFailed == ~llm.ok /\ llm.why \in RemoteFailures

\* C5: when the remote call fails (non-200 status, network error,
\* timeout, reply without a JSON object), the returned record has, for
\* each of name, email and phone that local extraction resolved, exactly
\* the locally resolved value.
C5_RemoteFailureKeepsLocalPII ==
    (fpc = "returned" /\ RemoteFailed) =>
        \A f \in PIIFields : IsSome(pii[f]) => response[f] = pii[f]
\* the remote call failed, the local name differs from the record's own
C5_Witness ==
    /\ fpc = "returned" /\ RemoteFailed
    /\ IsSome(pii.name) /\ IsSome(pii.phone)
    /\ pii.name # raw.name /\ response.name = pii.name

\* C4: format_resume_output never lets an exception reach its caller: for
\* every record (missing or null fields, a non-dictionary candidate) and
\* whichever of its steps fail, it returns a response record.
C4_FormatNeverRaises ==
    /\ fpc \in {"start", "calling", "combine", "local", "except", "minimal", "returned"}
    /\ fpc = "returned" => response.tier \in {"llm", "local", "fallback", "minimal", "error"}
\* every tier failed on a non-dictionary candidate: the last response
C4_Witness ==
    /\ fpc = "returned"
    /\ raw.cand = "not_dict"
    /\ response = ErrorResponse


\* ------------------------------------------------------------------------
\* Matching skills
\* ------------------------------------------------------------------------
\* str.lower() on the skills in use
LowerSkill(s) ==
    CASE s = "Python" -> "python"
      [] s = "AWS" -> "aws"
      [] s = "Go" -> "go"
      [] OTHER -> s
SameSkillCI(a, b) == LowerSkill(a) = LowerSkill(b)
\* for each criteria skill in order, the first candidate skill equal to it
\* without regard to case, as the candidate wrote it
RECURSIVE FirstMatches(_, _)
FirstMatches(cskills, wanted) ==
    IF wanted = <<>> THEN <<>>
    ELSE LET hits == {i \in 1..Len(cskills) : SameSkillCI(cskills[i], wanted[1])}
         IN (IF hits = {} THEN <<>> ELSE <<cskills[Least(hits)]>>)
                \o FirstMatches(cskills, Tail(wanted))

\* C11: the matching-skills list holds, for each criteria skill in criteria
\* order, the first candidate skill equal to it under case-insensitive
\* comparison, in the candidate's casing, and nothing for a criteria skill
\* the candidate lacks.
C11_MatchingSkillsCaseInsensitiveOrdered ==
    spc = "matched" => matching = FirstMatches(candidate.skills, criteria.skills)



\* ------------------------------------------------------------------------
\* Search results
\* ------------------------------------------------------------------------
\* the criteria the candidates are scored against
EffectiveCriteria == IF svia = "router" THEN KeywordsAsSkills(scrit) ELSE scrit
\* the candidates the search scores
ScoredPositions ==
    IF svia = "router" THEN 1..Len(spool) ELSE Range(Selected(spool, scrit, smax))
\* what the search is to return for a scored candidate
ExpectedEntry(i) ==
    IF Raises(spool[i], EffectiveCriteria)
    THEN [pos |-> i, match_score |-> RatInt(0), matching_skills |-> {}]
    ELSE Entry(spool, EffectiveCriteria, i)

\* C12: an exception raised while scoring one candidate of a batch does not
\* abort the batch: that candidate is returned with score 0 and no matching
\* skills, and every other candidate is scored and returned as without it
\* (stated for searches whose limit omits nothing).
C12_ScoringFailureIsolated ==
    qpc = "done" =>
        /\ ~sout.raised
        /\ smax >= Len(spool) =>
               Range(sout.results) = {ExpectedEntry(i) : i \in ScoredPositions}

\* the candidates a search without limit would return
Eligible ==
    IF svia = "router"
    THEN {i \in 1..Len(spool) : ~Raises(spool[i], EffectiveCriteria)}
    ELSE {i \in 1..Len(spool) : Passes(spool[i], scrit)}
ReturnedPositions == {sout.results[k].pos : k \in 1..Len(sout.results)}

\* C13: the results of a search are in non-increasing order of score, and
\* no candidate the max_results limit leaves out has a strictly higher
\* score than a returned one.
C13_SortedPrefix ==
    (qpc = "done" /\ ~sout.raised) =>
        /\ \A k \in 1..(Len(sout.results) - 1) :
               RatLeq(sout.results[k + 1].match_score, sout.results[k].match_score)
        /\ \A k \in 1..Len(sout.results) : \A i \in Eligible \ ReturnedPositions :
               RatLeq(Entry(spool, EffectiveCriteria, i).match_score,
                      sout.results[k].match_score)



\* ------------------------------------------------------------------------
\* Outreach campaigns
\* ------------------------------------------------------------------------
LoopCompletes == opc = "loop" /\ oidx > Len(camps[ocur].target_candidate_ids) /\ opc' = "done"

\* C14: a campaign is created with status "draft" and emails_sent 0; when
\* send_campaign_emails completes its loop over the targets the campaign's
\* status is "sent" and its emails_sent and sent timestamp are updated,
\* however many of the sends failed.
C14_CampaignDraftThenSent ==
    [][/\ Len(camps') > Len(camps) =>
              /\ camps'[Len(camps')].status = "draft"
              /\ camps'[Len(camps')].emails_sent = 0
       /\ LoopCompletes =>
              /\ camps'[ocur].status = "sent"
              /\ camps'[ocur].emails_sent = osent
              /\ IsSome(camps'[ocur].sent_at)
              /\ camps'[ocur].sent_at # camps[ocur].sent_at]_vars
C14_Witness ==
    /\ opc = "done"
    /\ oret.success
    /\ oret.emails_sent = 0
    /\ Len(oret.failed_emails) = MaxTargets
    /\ camps[ocur].status = "sent"

\* C15: in send_campaign_emails a failure for one recipient (candidate not
\* found, no email, the send answering false, an exception) is recorded
\* and passed over, and emails_sent plus the number of failed_emails is the
\* number of target_candidate_ids.
C15_SentPlusFailedIsTargets ==
    /\ opc = "loop" => osent + Len(ofailed) = oidx - 1
    /\ (opc = "done" /\ oret.success) =>
           oret.emails_sent + Len(oret.failed_emails) = Len(camps[ocur].target_candidate_ids)
C15_Witness ==
    /\ opc = "done"
    /\ oret.success
    /\ oret.emails_sent >= 1
    /\ \E k \in 1..Len(oret.failed_emails) : oret.failed_emails[k].why = "Failed to send"



\* ------------------------------------------------------------------------
\* Upload validation
\* ------------------------------------------------------------------------
RejectedUpload == upc = "done" /\ ~SupportedFile(ufile)

\* C16: an upload whose filename does not end in .pdf or .docx is rejected
\* with a client-facing reason before any extraction, store write or
\* external call is made, and leaves the store unchanged.
C16_UnsupportedFileRejectedFirst ==
    /\ [](RejectedUpload =>
              /\ ures = [code |-> 400, detail |-> UnsupportedDetail]
              /\ ueffects = {})
    /\ [][~SupportedFile(ufile') /\ uploads' # uploads =>
              /\ upc' = "done"
              /\ store' = store
              /\ nextId' = nextId]_vars
C16_Witness ==
    /\ RejectedUpload
    /\ ufile = <<"c","v",".","P","D","F">>
    /\ store # {}



\* ------------------------------------------------------------------------
\* Search-query processing
\* ------------------------------------------------------------------------
\* the endpoint did not answer 200, the request raised, or the answer
\* holds no JSON that parses
RemoteQueryFailed ==
    \/ aremote.kind \in {"network", "status", "bad_body", "no_choices"}
    \/ aremote.kind = "content" /\ ~JsonDecodes(JsonStretch(Strip(aremote.content)))

\* C17: process_search_query never raises; on a non-200 status, a network
\* exception or a response whose JSON cannot be parsed it returns the local
\* fallback criteria: skills found by keyword lookup, experience_min parsed
\* from the query or 0, experience_max 20, location and job_title null,
\* keywords the words of the query.
C17_QueryProcessingFallsBack ==
    apc = "done" =>
        /\ ~aout.raised
        /\ RemoteQueryFailed =>
               /\ aout.value.type = "object"
               /\ aout.value.fields.skills = _extract_skills_from_text(aquery)
               /\ aout.value.fields.experience_min =
                      (IF Search(LowerStr(aquery), years_pattern) = <<>>
                       THEN Some(DefaultExperienceMin)
                       ELSE Some(ParseInt(GroupN(LowerStr(aquery), years_pattern,
                                                 Search(LowerStr(aquery), years_pattern), 1))))
               /\ aout.value.fields.experience_max = Some(DefaultExperienceMax)
               /\ aout.value.fields.location = None
               /\ aout.value.fields.job_title = None
               /\ aout.value.fields.keywords = SplitWs(aquery)
C17_Witness ==
    /\ apc = "done"
    /\ aremote.kind = "content"
    /\ RemoteQueryFailed
    /\ aout.value.fields.experience_min = Some(10)
    /\ Len(aout.value.fields.skills) = 2



\* ------------------------------------------------------------------------
\* The vote
\* ------------------------------------------------------------------------
Methods == {"regex", "structural", "context", "spacy"}
\* the confidences and the priority of the methods as stated
StatedConfidence(mth, f) ==
    CASE mth = "regex" -> IF f = "name" THEN 80 ELSE 95
      [] mth = "structural" -> 90
      [] mth = "context" -> 88
      [] OTHER -> 85
StatedPriority(mth) ==
    CASE mth = "regex" -> 1 [] mth = "structural" -> 2 [] mth = "context" -> 3 [] OTHER -> 4
Hits(f) == {mth \in Methods : Truthy(found[mth][f])}
Outranks(a, b, f) ==
    \/ StatedConfidence(a, f) > StatedConfidence(b, f)
    \/ StatedConfidence(a, f) = StatedConfidence(b, f) /\ StatedPriority(a) <= StatedPriority(b)
StatedWinner(f) ==
    IF Hits(f) = {} THEN None
    ELSE found[CHOOSE a \in Hits(f) : \A b \in Hits(f) : Outranks(a, b, f)][f]

\* C18: extract_with_voting returns for each field the hit of highest
\* confidence among the methods' hits (pattern 0.95 for email and phone and
\* 0.8 for name, structural 0.9, context 0.88, entity tagger 0.85), ties
\* going to the method of higher priority; a field without a hit is null.
C18_VoteTakesHighestConfidence ==
    ppc # "input" => \A f \in {"name", "email", "phone"} : pii[f] = StatedWinner(f)
C18_Witness ==
    /\ ppc = "extracted"
    /\ Truthy(found.regex.name)
    /\ Truthy(found.structural.name)
    /\ found.regex.name # found.structural.name
    /\ pii.name = found.structural.name



\* ------------------------------------------------------------------------
\* Validity of the resolved values
\* ------------------------------------------------------------------------
\* exactly one "@", a non-empty local part, a domain that contains "." and
\* is longer than 3 characters
StatedEmailRule(e) ==
    /\ Count(e, "@") = 1
    /\ IndexOfCh(e, "@") > 1
    /\ Contains(Sub(e, IndexOfCh(e, "@") + 1, Len(e)), <<".">>)
    /\ Len(e) - IndexOfCh(e, "@") > 3
\* 10 to 15 digits
StatedPhoneRule(ph) == Len(Keep(ph, Digit)) \in 10..15
\* at least two words, each capitalised and alphabetic, and not a phrase
\* of the denylist
StatedNameRule(n) ==
    /\ Len(SplitWs(n)) >= 2
    /\ \A i \in 1..Len(SplitWs(n)) : IsCapAlpha(SplitWs(n)[i])
    /\ n \notin false_positives

\* C19: every non-null value the extractor resolves satisfies the
\* validation rule of its field.
C19_ResolvedValuesAreValid ==
    ppc # "input" =>
        /\ IsSome(pii.email) => StatedEmailRule(Val(pii.email))
        /\ IsSome(pii.phone) => StatedPhoneRule(Val(pii.phone))
        /\ IsSome(pii.name) => StatedNameRule(Val(pii.name))



\* ------------------------------------------------------------------------
\* The skills component
\* ------------------------------------------------------------------------
\* the criteria skills that occur among the candidate's, case ignored
CriteriaSkillsPresent(cand, crit) ==
    {i \in 1..Len(crit.skills) :
        \E j \in 1..Len(cand.skills) : SameSkillCI(crit.skills[i], cand.skills[j])}

\* C20: the skills component of the score is 0 when the candidate's or the
\* criteria's skill list is empty, and otherwise 40 times the number of
\* criteria skills that occur in the candidate's skills under
\* case-insensitive comparison, divided by the number of criteria skills.
C20_SkillsComponent ==
    (spc = "scored" /\ ~match.raised) =>
        IF candidate.skills = <<>> \/ criteria.skills = <<>>
        THEN RatEq(match.skills, RatInt(0))
        ELSE RatEq(match.skills,
                   Rat(SkillShare * Cardinality(CriteriaSkillsPresent(candidate, criteria)),
                       Len(criteria.skills)))


\* ------------------------------------------------------------------------
\* The location component
\* ------------------------------------------------------------------------
\* some whitespace-separated token of the required location occurs in the
\* candidate's location
SharesToken(required, have) ==
    \E i \in 1..Len(SplitWs(required)) : ContainsCI(have, SplitWs(required)[i])

StatedLocation(cand, crit) ==
    IF ~Truthy(crit.location) \/ ~Truthy(cand.location) THEN 0
    ELSE IF ContainsCI(Val(crit.location), Val(cand.location))
              \/ ContainsCI(Val(cand.location), Val(crit.location))
         THEN LocationShare
    ELSE IF SharesToken(Val(crit.location), Val(cand.location))
         THEN LocationShare \div 2
    ELSE 0

\* C21: the location component is 20 when, case ignored, the required
\* location contains the candidate's or the candidate's contains the
\* required one; otherwise 10 when a whitespace-separated token of the
\* required location occurs in the candidate's; otherwise 0; and 0 when
\* either location is missing.
C21_LocationComponent ==
    (spc = "scored" /\ ~match.raised) =>
        match.location = StatedLocation(candidate, criteria)


\* ------------------------------------------------------------------------
\* Where the fields of the formatted record come from
\* ------------------------------------------------------------------------
\* the remote call returned an object that has something for the field
RemoteGaveSkills == LlmTruthy(llm) /\ llm.skills_kind = "list" /\ llm.skills # <<>>
RemoteGaveYears ==
    LlmTruthy(llm) /\ IsSome(llm.experience_years) /\ Val(llm.experience_years) # 0
RemoteGaveLocation == LlmTruthy(llm) /\ Truthy(llm.location)

\* the record's own years; a record without years may be reported as 0
RecordYears == {raw.experience_years} \cup (IF IsSome(raw.experience_years) THEN {} ELSE {Some(0)})

\* C22: in the returned record, name, email and phone are the locally
\* extracted values (the record's own value only where local extraction
\* resolved nothing), and skills, experience_years and location are the
\* remote result's, or the record's own where the remote call failed or
\* returned nothing for the field.
C22_FieldSources ==
    fpc = "returned" =>
        /\ \A f \in PIIFields : response[f] = (IF Truthy(pii[f]) THEN pii[f] ELSE raw[f])
        /\ response.skills = (IF RemoteGaveSkills THEN llm.skills ELSE raw.skills)
        /\ IF RemoteGaveYears THEN response.experience_years = llm.experience_years
                              ELSE response.experience_years \in RecordYears
        /\ response.location = (IF RemoteGaveLocation THEN llm.location ELSE raw.location)


\* ------------------------------------------------------------------------
\* The order of the formatter's tiers
\* ------------------------------------------------------------------------
\* a step in which the LLM-assisted tier fails: the remote call returns
\* nothing, or a stage of the tier raises
LlmTierFails ==
    \/ fpc = "calling" /\ fpc' # "calling" /\ ~LlmTruthy(llm')
    \/ fpc \in {"start", "combine"} /\ fpc' \notin {fpc, "calling", "returned"}
\* a step that hands over to, or answers from, a tier
EntersLocalTier == fpc' = "local"
EntersMinimalTier == fpc # "minimal" /\ fpc' = "minimal"
AnswersWithError == response.tier # "error" /\ response'.tier = "error"

\* C23: the formatter degrades in tier order: a failure of the
\* LLM-assisted tier is answered by the local-PII+manual tier, the minimal
\* tier is entered only when that tier raised, and the error-status
\* placeholder is produced only when the minimal tier raised.
C23_TierOrder ==
    [][/\ LlmTierFails => EntersLocalTier
       /\ EntersMinimalTier => fpc = "local"
       /\ AnswersWithError => fpc = "minimal"]_vars


\* ------------------------------------------------------------------------
\* The logger registry
\* ------------------------------------------------------------------------
\* the calls that have returned
Returned(t) == lpc[t] = "idle" /\ IsSome(lret[t])

\* C24: after any calls of get_logger, sequential or concurrent, every
\* name that has a logger in the registry has the one logger of that name
\* there, carrying exactly one handler, and every call that returned for
\* a name returned that logger.
C24_OneLoggerOneHandler ==
    /\ \A n \in LoggerNames :
          IsSome(registry[n]) => registry[n] = Some(n) /\ pylog[n] = 1
    /\ \A t \in Threads : Returned(t) => lret[t] = Some(lname[t])


\* ------------------------------------------------------------------------
\* Resolved values and the text they were found in
\* ------------------------------------------------------------------------
\* C25: every email, phone or name that extract_with_voting resolves
\* occurs in the input text as a contiguous substring, case ignored.
C25_ResolvedValuesOccurInText ==
    ppc \in {"extracted", "sanitized"} =>
        \A f \in PIIFields : IsSome(pii[f]) => ContainsCI(text, Val(pii[f]))


\* ------------------------------------------------------------------------
\* Creating and deleting candidates side by side (SpecDelete)
\* ------------------------------------------------------------------------
\* C26: a create_candidate call that takes the duplicate-key path while
\* the candidate with that email is being deleted still ends with
\* 'created' or 'exists'; it does not raise to its caller.
C26_CreateSurvivesConcurrentDelete ==
    \A c \in Clients : cpc[c] = "done" => cres[c].action \in {"created", "exists"}

\* the delete request is served in this step
DeleteStep == dpc = "start" /\ dpc' = "done"
\* C27: deleting by an id that is not stored answers 404 'Candidate not
\* found' (not a server error) and leaves the store unchanged, as does
\* deleting by an email that is not stored; deleting an existing
\* candidate removes exactly that row and returns its data.
C27_DeleteOutcomes ==
    [][DeleteStep =>
         LET rows == IF dreq'.via = "id" THEN RowsWithId(dreq'.id)
                                         ELSE RowsWithEmail(dreq'.email)
         IN IF rows = {}
            THEN /\ dres'.code = 404
                 /\ dres'.detail = CandidateNotFound
                 /\ store' = store
            ELSE /\ dres'.code = 200
                 /\ dres'.deleted \in rows
                 /\ store' = store \ {dres'.deleted}]_vars


\* ------------------------------------------------------------------------
\* Sanitizing twice (SpecTwice)
\* ------------------------------------------------------------------------
Markers == {EMAIL_REMOVED, PHONE_REMOVED, NAME_REMOVED}
\* no replacement of a name token touches a marker that is in the text
RECURSIVE MarkersKept(_, _)
MarkersKept(t, parts) ==
    \/ parts = <<>>
    \/ IF Len(Head(parts)) > MinNamePartLen
       THEN /\ \A mk \in Markers : Contains(t, mk) => ~ContainsCI(mk, Head(parts))
            /\ MarkersKept(ReplaceAllCI(t, Head(parts), NAME_REMOVED), Tail(parts))
       ELSE MarkersKept(t, Tail(parts))

\* C28: sanitizing a sanitized text again with the same PII result leaves
\* it unchanged, and no name-token replacement alters a marker that an
\* earlier replacement inserted.
C28_SanitizeIdempotent ==
    /\ [](ppc = "sanitized" /\ Truthy(pii.name) =>
            MarkersKept(SanitizePhone(SanitizeEmail(text, pii), pii), SplitWs(Val(pii.name))))
    /\ [][(ppc = "sanitized" /\ ppc' = "resanitized") => sanitized' = sanitized]_vars


\* ------------------------------------------------------------------------
\* The status and counter of a campaign over its life
\* ------------------------------------------------------------------------
\* C29: after any creates and sends, repeated and failed sends included, a
\* campaign is 'draft' exactly when no send has completed on it, a 'sent'
\* campaign never becomes 'draft' again, and its stored emails_sent lies
\* between 0 and the number of its target_candidate_ids.
C29_CampaignStatusAndCounter ==
    /\ [](\A i \in 1..Len(camps) :
             /\ camps[i].status \in {"draft", "sent"}
             /\ camps[i].status = "draft" <=> camps[i].completed = 0
             /\ 0 <= camps[i].emails_sent
             /\ camps[i].emails_sent <= Len(camps[i].target_candidate_ids))
    /\ [][\A i \in 1..Len(camps) :
             camps[i].status = "sent" => camps'[i].status = "sent"]_vars
\* a campaign sent twice, every target reached by the second send
C29_Witness ==
    /\ opc = "done"
    /\ oret.success
    /\ camps[ocur].completed = 2
    /\ camps[ocur].target_candidate_ids # <<>>
    /\ camps[ocur].emails_sent = Len(camps[ocur].target_candidate_ids)


\* ------------------------------------------------------------------------
\* The years of experience of the formatted record
\* ------------------------------------------------------------------------
\* C30: in the returned record experience_years is a non-negative
\* integer in every tier, whatever the remote service or the original
\* record supplied for it.
C30_ExperienceYearsNonNegative ==
    fpc = "returned" =>
        /\ IsSome(response.experience_years)
        /\ Val(response.experience_years) >= 0

====
